---- MODULE Spec2Model ----
(***************************************************************************)
(* State-machine model of the wildfire decision pipeline:                  *)
(*   FireSimulationEngine  (src/src/fire_engine.py)                        *)
(*   QuantumResourceSolver (src/src/quantum_bridge.py)                     *)
(*                                                                         *)
(* Number representation.  The source computes in IEEE doubles; the model  *)
(* computes exactly in scaled integers:                                    *)
(*   kernel weights and neighbour influence   unit 10^-6                   *)
(*   hazard values (risk_grid)                unit 10^-1                   *)
(*   ignition probability and random rolls    unit 10^-7                   *)
(*   cos / sin of the eight compass bearings  unit 10^-3                   *)
(*   allocator scores and noise               unit 1                       *)
(* Residues of the double arithmetic below 10^-15 (cos(pi/2) = 6.1e-17)    *)
(* are below the resolution of every comparison made here and are taken    *)
(* as 0.                                                                   *)
(*                                                                         *)
(* Specifications:                                                         *)
(*   Spec         run_simulation calls on one engine                       *)
(*   SpecTactics  analyze_tactics calls                                    *)
(*   SpecAlloc    optimize_response calls of one session, in sequence      *)
(*   SpecConc     optimize_response calls of two sessions, interleaved     *)
(***************************************************************************)
EXTENDS Integers, Sequences, FiniteSets, TLC

VARIABLES
    \* ---- FireSimulationEngine -------------------------------------------
    raster,           \* the file at risk_map_path
    eng_pc,           \* the engine: "new" (not constructed), "built", "raised"
    transform,        \* self.transform, NoTransform for None
    gp_pc,            \* position of get_pixel_from_gps: "idle", "returned"
    gp_arg,           \* its arguments <<lat, lon>>
    gp_result,        \* its result <<col, row>>, NoPixel for (None, None)
    risk_grid,        \* self.risk_grid : [Cells -> hazard in tenths]
    sim_pc,           \* position of run_simulation: "idle", "loop", "returned"
    start_x, start_y, \* arguments of the running call
    wind_speed, wind_dir, duration_hours,
    kernel,           \* local kernel (3x3, unit 10^-6)
    steps,            \* local steps
    step_k,           \* number of loop iterations completed
    current_state,    \* local current_state : [Cells -> {0, 1}]
    frames,           \* local frames : sequence of [Cells -> 0..255]
    sim_result,       \* what the call handed back to its caller
    \* ---- FireSimulationEngine.analyze_tactics ---------------------------
    tac_pc,           \* position of analyze_tactics: "idle", "returned"
    tac_mask,         \* argument fire_mask : [Cells -> {0, 255}]
    tac_raised,       \* TRUE when the call ended by raising
    tac_contours,     \* local contours, as cv2.findContours listed them
    tac_wind_dir,     \* argument wind_dir
    tac_largest,      \* local largest (a sequence of <<x, y>> vertices)
    tactics,          \* the returned value: NoTactics (None) or a record
    tac_metrics,      \* the 'metrics' of the result, NoMetrics without a result
    \* ---- QuantumResourceSolver (one shared instance) --------------------
    fleet,            \* self.fleet : sequence of unit records
    a_pc,             \* per call: "idle", "loop", "filter", "store", "returned"
    a_targets,        \* per call: argument targets, a sequence of items
    a_k,              \* per call: index of the target the loop is at
    a_pool,           \* per call: the list the scoring loop iterated over
    a_best,           \* per call: best_asset, <<>> for None, else <<unit>>
    a_scores,         \* per call: the score each unit of the pool got in the
                      \* scoring loop just left
    a_tmp,            \* per call: the filtered list about to be stored
    a_solution,       \* per call: solution
    a_calls,          \* per session: the number of calls it has begun
    \* ---- LogisticsRouter -----------------------------------------------
    graph,            \* self.graph : the road graph, or NoGraph for None
    r_pc,             \* position of calculate_route: "idle", "returned"
    r_target,         \* arguments <<lat_target, lon_target>>
    r_asset_id,       \* argument asset_id
    r_avoid_polygon,  \* argument avoid_polygon, <<>> for None
    r_start,          \* local start, the base resolved for the asset
    r_trace,          \* locals of the road branch and the exception caught
    r_route,          \* the returned route
    r_raised,         \* TRUE when the call ended by raising
    \* ---- LogisticsRouter._haversine ------------------------------------
    h_pc,             \* "idle", "returned"
    h_a, h_b,         \* two points <<lat, lon>>
    h_ab, h_ba, h_aa, \* _haversine(a, b), _haversine(b, a), _haversine(a, a)
    \* ---- pages/3_Simulation_Lab.py, one session -------------------------
    lab_pc,           \* the EXECUTE SIMULATION handler: "idle", "simulating",
                      \* "allocating"
    lab_px,           \* px, py of the handler, NoPixel for (None, None)
    lab_message,      \* what the handler reported: "Out of bounds.", "Done."
    lab_render,       \* the Logistics tab: "skipped", "drawn", "TypeError"
    sim_active,       \* st.session_state['sim_active']
    sim_frames,       \* st.session_state['sim_frames']
    sim_tactics,      \* st.session_state['sim_tactics'], NoTactics for None
    sim_allocations,  \* st.session_state['sim_allocations'], <<>> for None
    selected_unit_id, \* st.session_state['selected_unit_id']
    \* ---- one wind handed to the kernel and to the tactics vector ---------
    k_pc,             \* "idle", "returned"
    k_speed,          \* argument speed
    k_direction,      \* argument direction / wind_dir
    k_kernel,         \* _generate_wind_kernel(speed, direction)
    k_vector,         \* <<vx, vy>> of analyze_tactics for wind_dir
    p_pc,             \* "idle", "sampled"
    p_largest,        \* the largest contour, as <<x, y>> pixel vertices
    fire_perimeter_gps \* gps_polygon: the (lat, lon) list built from it

engVars == <<raster, eng_pc, transform, gp_pc, gp_arg, gp_result>>

simVars == <<risk_grid, sim_pc, start_x, start_y, wind_speed, wind_dir,
             duration_hours, kernel, steps, step_k, current_state, frames,
             sim_result>>

tacVars == <<tac_pc, tac_mask, tac_raised, tac_contours, tac_wind_dir, tac_largest,
            tactics, tac_metrics>>

allocVars == <<fleet, a_pc, a_targets, a_k, a_pool, a_best, a_scores, a_tmp,
               a_solution, a_calls>>

routeVars == <<graph, r_pc, r_target, r_asset_id, r_avoid_polygon, r_start,
               r_trace, r_route, r_raised>>

hvVars == <<h_pc, h_a, h_b, h_ab, h_ba, h_aa>>

labVars == <<lab_pc, lab_px, lab_message, lab_render, sim_active, sim_frames,
             sim_tactics, sim_allocations, selected_unit_id>>

perimVars == <<p_pc, p_largest, fire_perimeter_gps>>

fnVars == <<k_pc, k_speed, k_direction, k_kernel, k_vector, perimVars>>

\* what each component leaves alone
notSimVars == <<engVars, tacVars, allocVars, routeVars, hvVars, labVars, fnVars>>
notTacVars == <<engVars, simVars, allocVars, routeVars, hvVars, labVars, fnVars>>
notAllocVars == <<engVars, simVars, tacVars, routeVars, hvVars, labVars, fnVars>>
notRouteVars == <<engVars, simVars, tacVars, allocVars, hvVars, labVars, fnVars>>
notHvVars == <<engVars, simVars, tacVars, allocVars, routeVars, labVars, fnVars>>
notFnVars == <<engVars, simVars, tacVars, allocVars, routeVars, hvVars, labVars>>

vars == <<engVars, simVars, tacVars, allocVars, routeVars, hvVars, labVars, fnVars>>

-----------------------------------------------------------------------------
\* Bounds of the model.

\* grid shape (risk_grid.shape): GridH rows, GridW columns
GridH == 2
GridW == 2
\* longest duration offered, in twelfths of an hour (half steps)
MaxDuration == 4
\* contour vertices have coordinates in 0 .. MaxCoord, a contour has at
\* most MaxVertices of them
MaxCoord == 1
MaxVertices == 3
\* most targets in one optimize_response call
MaxTargets == 3
\* most optimize_response calls one session makes, one after another
MaxCalls == 2

Rows == 0 .. (GridH - 1)
Cols == 0 .. (GridW - 1)
\* a grid is stored row-major, as numpy stores it: cell (row r, column c)
\* is element CellAt(r, c) of a sequence of GridH * GridW values
Cells == 1 .. (GridH * GridW)
CellAt(r, c) == r * GridW + c + 1
RowOf(cell) == (cell - 1) \div GridW
ColOf(cell) == (cell - 1) % GridW

\* ignition pixels <<x, y>> offered to run_simulation: every pixel of the
\* grid, and one pixel off each edge of it
StartPixels ==
    {<<x, y>> : x \in Cols, y \in Rows}
      \cup {<<-1, 0>>, <<GridW, 0>>, <<0, -1>>, <<0, GridH>>}

\* the eight cardinal and intercardinal bearings
Bearings == {0, 45, 90, 135, 180, 225, 270, 315}
\* winds offered to run_simulation
SimWinds == {<<0, 0>>, <<10, 0>>, <<10, 135>>}

\* values of one np.random.rand() draw, unit 10^-7 (the draw lies in [0, 1)):
\* 0, under which every positive probability ignites, and 0.2, which lies
\* between the windless (0.09) and the wind-driven (0.81) probability of a
\* cell of hazard 0.8 with one burning neighbour
Rolls == {0, 2000000}

\* hazard rasters an engine can hold after loading, in tenths:
\* uniform 0.8, the all-zero fallback grid, and a mix of 0.8 / 0.1 / 0.2
HazardGrids ==
    { [c \in Cells |-> 8],
      [c \in Cells |-> 0],
      [c \in Cells |-> IF (RowOf(c) + ColOf(c)) % 2 = 0 THEN 8
                       ELSE IF RowOf(c) = 0 THEN 1 ELSE 2] }

-----------------------------------------------------------------------------
\* Program constants.

\* self.wind_factor = 0.08, in thousandths
wind_factor == 80
\* base neighbour weight 0.1 of the kernel, unit 10^-6
BaseWeight == 100000
\* the 0.1 added to the hazard in prob_map, in tenths
HazardOffset == 1
\* the flammability floor 0.1 of `self.risk_grid > 0.1`, in tenths
HazardFloor == 1

-----------------------------------------------------------------------------
\* math.cos / math.sin of math.radians(d) for d a multiple of 45, unit 10^-3

Norm360(d) == ((d % 360) + 360) % 360

CosK(d) ==
    LET a == Norm360(d) IN
    CASE a = 0 -> 1000
      [] a = 45 -> 707
      [] a = 90 -> 0
      [] a = 135 -> -707
      [] a = 180 -> -1000
      [] a = 225 -> -707
      [] a = 270 -> 0
      [] a = 315 -> 707

SinK(d) == CosK(d - 90)

Abs(x) == IF x < 0 THEN -x ELSE x

-----------------------------------------------------------------------------
\* FireSimulationEngine._generate_wind_kernel
\* u, v in unit 10^-6: speed * cos(rad) [10^-3] * wind_factor [10^-3]

WindU(speed, direction) == speed * CosK(direction - 90) * wind_factor
WindV(speed, direction) == speed * SinK(direction - 90) * wind_factor

generate_wind_kernel(speed, direction) ==
    LET u == WindU(speed, direction)
        v == WindV(speed, direction)
        k0 == [i \in 0..2, j \in 0..2 |-> IF i = 1 /\ j = 1 THEN 0 ELSE BaseWeight]
        k1 == [i \in 0..2, j \in 0..2 |-> IF v > 0 /\ i = 2 THEN k0[i, j] + v ELSE k0[i, j]]
        k2 == [i \in 0..2, j \in 0..2 |-> IF v < 0 /\ i = 0 THEN k1[i, j] + Abs(v) ELSE k1[i, j]]
        k3 == [i \in 0..2, j \in 0..2 |-> IF u > 0 /\ j = 2 THEN k2[i, j] + u ELSE k2[i, j]]
        k4 == [i \in 0..2, j \in 0..2 |-> IF u < 0 /\ j = 0 THEN k3[i, j] + Abs(u) ELSE k3[i, j]]
    IN k4

-----------------------------------------------------------------------------
\* scipy.ndimage.convolve(state, k, mode='constant'): a true convolution (the
\* kernel is mirrored), cells outside the grid read as 0.

\* (a plausible slip: cells outside the grid read as burning, cval = 1)
PaddedBurning(state, r, c) ==
    IF r \in Rows /\ c \in Cols THEN state[CellAt(r, c)] ELSE 1

Padded(state, r, c) ==
    IF r \in Rows /\ c \in Cols THEN state[CellAt(r, c)] ELSE 0

\* (a plausible slip: scipy.ndimage.correlate, the kernel not mirrored)
Correlate(state, k) ==
    [cell \in Cells |->
        LET r == RowOf(cell)
            c == ColOf(cell)
            term(i, j) == k[i, j] * Padded(state, r + i - 1, c + j - 1)
            row(i) == term(i, 0) + term(i, 1) + term(i, 2)
        IN row(0) + row(1) + row(2)]

Convolve(state, k) ==
    [cell \in Cells |->
        LET r == RowOf(cell)
            c == ColOf(cell)
            term(i, j) == k[i, j] * Padded(state, r + 1 - i, c + 1 - j)
            row(i) == term(i, 0) + term(i, 1) + term(i, 2)
        IN row(0) + row(1) + row(2)]

\* (state * 255).astype(np.uint8)
Quantize(state) == [cell \in Cells |-> (state[cell] * 255) % 256]

ZeroGrid == [cell \in Cells |-> 0]

\* the bounds test of run_simulation on the ignition pixel
InGrid(x, y) == 0 <= y /\ y < GridH /\ 0 <= x /\ x < GridW

\* fire_grid[start_y, start_x] = 1.0 with numpy's indexing: a negative index
\* counts from the end, an index out of range raises IndexError
IndexOk(x, y) == -GridH <= y /\ y < GridH /\ -GridW <= x /\ x < GridW
WrapIndex(i, n) == IF i < 0 THEN i + n ELSE i
\* (a plausible slip: fire_grid[start_x, start_y], the axes exchanged)
SetPixelSwapped(grid, x, y) ==
    [grid EXCEPT ![CellAt(WrapIndex(x, GridH), WrapIndex(y, GridW))] = 1]

SetPixel(grid, x, y) ==
    [grid EXCEPT ![CellAt(WrapIndex(y, GridH), WrapIndex(x, GridW))] = 1]

\* (a plausible slip: the step count rounded up instead of truncated)
StepsOfCeil(d) == (d * 6 + 11) \div 12

\* steps = int(duration_hours * 6), duration in twelfths of an hour
StepsOf(d) == (d * 6) \div 12

\* the loop body of run_simulation, line by line
\* prob_map = neighbor_influence * (self.risk_grid + 0.1), unit 10^-7
ProbMap(state, k, risk) ==
    LET neighbor_influence == Convolve(state, k)
    IN [cell \in Cells |-> neighbor_influence[cell] * (risk[cell] + HazardOffset)]

\* (a plausible slip: the flammability floor left out)
NewIgnitionsNoFloor(prob_map, risk, random_roll) ==
    [cell \in Cells |-> IF prob_map[cell] > random_roll[cell] THEN 1 ELSE 0]

\* new_ignitions = (prob_map > random_roll) & (self.risk_grid > 0.1)
NewIgnitions(prob_map, risk, random_roll) ==
    [cell \in Cells |->
        IF prob_map[cell] > random_roll[cell] /\ risk[cell] > HazardFloor
        THEN 1 ELSE 0]

\* np.maximum(a, b)
Maximum(a, b) == [cell \in Cells |-> IF a[cell] >= b[cell] THEN a[cell] ELSE b[cell]]

\* (a plausible slip: the new ignitions overwrite the state)
NextStateOverwrite(state, new_ignitions) == new_ignitions

\* current_state = np.maximum(current_state, new_ignitions.astype(float))
NextState(state, new_ignitions) == Maximum(state, new_ignitions)

-----------------------------------------------------------------------------
\* run_simulation, lines 69-77: ignition, kernel, step count, first frame

\* (a plausible slip: the ignition pixel is written without the bounds test)
IgnitionUnguarded(x, y) == TRUE

\* if 0 <= start_y < fire_grid.shape[0] and 0 <= start_x < fire_grid.shape[1]
IgnitionGuard(x, y) == InGrid(x, y)

RunSimulationCall(x, y, w, d) ==
         /\ start_x' = x
         /\ start_y' = y
         /\ wind_speed' = w[1]
         /\ wind_dir' = w[2]
         /\ duration_hours' = d
         /\ kernel' = generate_wind_kernel(w[1], w[2])
         /\ steps' = StepsOf(d)
         /\ step_k' = 0
         /\ IF IgnitionGuard(x, y)
            THEN IF IndexOk(x, y)
                 THEN /\ current_state' = SetPixel(ZeroGrid, x, y)
                      /\ frames' = <<Quantize(SetPixel(ZeroGrid, x, y))>>
                      /\ sim_pc' = "loop"
                      /\ sim_result' = "pending"
                 ELSE /\ current_state' = ZeroGrid
                      /\ frames' = <<>>
                      /\ sim_pc' = "returned"
                      /\ sim_result' = "IndexError"
            ELSE /\ current_state' = ZeroGrid
                 /\ frames' = <<Quantize(ZeroGrid)>>
                 /\ sim_pc' = "loop"
                 /\ sim_result' = "pending"

\* a call of run_simulation on the idle engine
RunSimulationBegin ==
    /\ sim_pc = "idle"
    /\ \E p \in StartPixels, w \in SimWinds, d \in 0 .. MaxDuration :
         RunSimulationCall(p[1], p[2], w, d)
    /\ UNCHANGED <<risk_grid, notSimVars>>

\* run_simulation, lines 79-85: one loop iteration
RunSimulationStep ==
    /\ sim_pc = "loop"
    /\ step_k < steps
    /\ \E prob_map \in {ProbMap(current_state, kernel, risk_grid)} :
       \E random_roll \in [Cells -> Rolls] :
       \E new_ignitions \in {NewIgnitions(prob_map, risk_grid, random_roll)} :
       \E next \in {NextState(current_state, new_ignitions)} :
            /\ current_state' = next
            /\ frames' = Append(frames, Quantize(next))
    /\ step_k' = step_k + 1
    /\ UNCHANGED <<risk_grid, sim_pc, start_x, start_y, wind_speed, wind_dir,
                   duration_hours, kernel, steps, sim_result, notSimVars>>

\* run_simulation, line 87: return {'frames': frames}
RunSimulationReturn ==
    /\ sim_pc = "loop"
    /\ step_k >= steps
    /\ sim_pc' = "returned"
    /\ sim_result' = "frames"
    /\ UNCHANGED <<risk_grid, start_x, start_y, wind_speed, wind_dir,
                   duration_hours, kernel, steps, step_k, current_state, frames,
                   notSimVars>>

\* the caller has taken the result and the call's locals are gone; the
\* engine (risk_grid) is ready for the next call
RunSimulationDone ==
    /\ sim_pc = "returned"
    /\ sim_pc' = "idle"
    /\ start_x' = 0
    /\ start_y' = 0
    /\ wind_speed' = 0
    /\ wind_dir' = 0
    /\ duration_hours' = 0
    /\ kernel' = generate_wind_kernel(0, 0)
    /\ steps' = 0
    /\ step_k' = 0
    /\ current_state' = ZeroGrid
    /\ frames' = <<>>
    /\ sim_result' = "none"
    /\ UNCHANGED <<risk_grid, notSimVars>>

SimInitWith(grids) ==
    /\ risk_grid \in grids
    /\ sim_pc = "idle"
    /\ start_x = 0
    /\ start_y = 0
    /\ wind_speed = 0
    /\ wind_dir = 0
    /\ duration_hours = 0
    /\ kernel = generate_wind_kernel(0, 0)
    /\ steps = 0
    /\ step_k = 0
    /\ current_state = ZeroGrid
    /\ frames = <<>>
    /\ sim_result = "none"

SimInit == SimInitWith(HazardGrids)

SimNext ==
    \/ RunSimulationBegin
    \/ RunSimulationStep
    \/ RunSimulationReturn
    \/ RunSimulationDone

-----------------------------------------------------------------------------
\* Claims about run_simulation, checked under Spec.

AllZero(frame) == \A cell \in Cells : frame[cell] = 0

\* C1 (monotonicity): in the frame series of every run, for every cell and
\* every pair of consecutive frames t, t+1, frame[t+1][cell] >= frame[t][cell];
\* so a cell burning in one frame is burning in every later frame.
C1_Monotone ==
    /\ \A t \in 1 .. (Len(frames) - 1) : \A cell \in Cells :
          frames[t + 1][cell] >= frames[t][cell]
    /\ \A t \in 1 .. Len(frames) : \A t2 \in t .. Len(frames) : \A cell \in Cells :
          frames[t][cell] = 255 => frames[t2][cell] = 255

\* a run whose fire grew in each of two consecutive steps
C1_Witness ==
    /\ Len(frames) >= 3
    /\ frames[2] # frames[1]
    /\ frames[3] # frames[2]
    /\ \E cell \in Cells : frames[3][cell] = 0

\* C2, as claimed: a call with an ignition pixel outside the grid hands back
\* a distinct OutOfBounds signal instead of a frame series.
C2_OutOfBoundsSignal ==
    (sim_pc = "returned" /\ ~InGrid(start_x, start_y))
        => sim_result = "OutOfBounds"

\* C2, amended: a call with an ignition pixel outside the grid does not raise
\* and hands back an ordinary frame series, of steps + 1 frames, in which no
\* cell ever burns.
C2_OutOfBoundsBlankFrames ==
    (sim_pc = "returned" /\ ~InGrid(start_x, start_y))
        => /\ sim_result = "frames"
           /\ Len(frames) = steps + 1
           /\ \A t \in 1 .. Len(frames) : AllZero(frames[t])

\* an out-of-grid call (negative column index) that has run two steps on a
\* grid with flammable cells
C2_Witness ==
    /\ sim_pc = "returned"
    /\ start_x = -1
    /\ Len(frames) = 3
    /\ \E cell \in Cells : risk_grid[cell] > HazardFloor

\* C3 (zero duration): a call with an in-grid pixel p and duration 0 returns
\* exactly one frame, with p at 255 and every other cell at 0.
C3_ZeroDuration ==
    (sim_pc = "returned" /\ InGrid(start_x, start_y) /\ duration_hours = 0)
        => /\ sim_result = "frames"
           /\ Len(frames) = 1
           /\ \A r \in Rows, c \in Cols :
                 frames[1][CellAt(r, c)] =
                     IF r = start_y /\ c = start_x THEN 255 ELSE 0

\* a zero-duration call on an off-diagonal pixel, under wind, flammable grid
C3_Witness ==
    /\ sim_pc = "returned"
    /\ duration_hours = 0
    /\ start_x = 1
    /\ start_y = 0
    /\ wind_speed > 0
    /\ \A cell \in Cells : risk_grid[cell] > HazardFloor

\* C4 (frame count): a call of duration h performs int(h * 6) steps and
\* returns that many frames plus one; the first frame is the state before
\* any spread and the frame recorded after k steps is the state after k steps.
C4_FrameCount ==
    /\ sim_pc = "loop"
          => /\ Len(frames) = step_k + 1
             /\ frames[step_k + 1] = Quantize(current_state)
             /\ \A cell \in Cells :
                   frames[1][cell] =
                       IF InGrid(start_x, start_y)
                          /\ cell = CellAt(start_y, start_x) THEN 255 ELSE 0
    /\ (sim_pc = "returned" /\ sim_result = "frames")
          => /\ (Len(frames) - 1) * 12 <= duration_hours * 6
             /\ duration_hours * 6 < Len(frames) * 12
             /\ step_k = Len(frames) - 1

\* a call of 3/12 hour (1.5 steps) that returned two frames
C4_Witness ==
    /\ sim_pc = "returned"
    /\ duration_hours = 3
    /\ Len(frames) = 2
    /\ frames[2] # frames[1]

\* The weight with which a burning cell raises the influence at its
\* neighbour dr rows below and dc columns to the right of it (dr, dc in
\* -1 .. 1), read off the convolution of a single burning cell.
Impulse(r, c) == [cell \in Cells |-> IF cell = CellAt(r, c) THEN 1 ELSE 0]

SpreadWeight(k, dr, dc) ==
    LET r0 == IF dr >= 0 THEN 0 ELSE 1
        c0 == IF dc >= 0 THEN 0 ELSE 1
    IN Convolve(Impulse(r0, c0), k)[CellAt(r0 + dr, c0 + dc)]

\* C5 (downwind bias), as claimed: with wind bearing 0 (from the north) and
\* positive speed a burning cell ignites its southern neighbour (row + 1)
\* with strictly greater weight than its northern neighbour (row - 1).
C5_SouthFavoured ==
    (sim_pc = "loop" /\ wind_dir = 0 /\ wind_speed > 0)
        => SpreadWeight(kernel, 1, 0) > SpreadWeight(kernel, -1, 0)

\* the cell of the ignition pixel of the run
IgnitionCell == CellAt(start_y, start_x)

\* C21 (flammability floor): a cell burning in a frame but not in the frame
\* before has hazard strictly above 0.1; so in every frame every burning cell
\* other than the ignition pixel has hazard above 0.1, and on a grid whose
\* hazard is at most 0.1 everywhere the fire never leaves the ignition pixel.
C21_FlammabilityFloor ==
    /\ \A t \in 1 .. (Len(frames) - 1) : \A cell \in Cells :
          (frames[t + 1][cell] # 0 /\ frames[t][cell] = 0)
              => risk_grid[cell] > HazardFloor
    /\ \A t \in 1 .. Len(frames) : \A cell \in Cells :
          frames[t][cell] # 0
              => \/ InGrid(start_x, start_y) /\ cell = IgnitionCell
                 \/ risk_grid[cell] > HazardFloor
    /\ (\A cell \in Cells : risk_grid[cell] <= HazardFloor)
          => \A t \in 1 .. Len(frames) : \A cell \in Cells :
                frames[t][cell] # 0
                    => InGrid(start_x, start_y) /\ cell = IgnitionCell

\* two steps from pixel (0, 0) on the mixed grid: the cell of hazard exactly
\* 0.1 is the only one not burning, next to three burning cells
C21_Witness ==
    /\ sim_pc = "returned"
    /\ start_x = 0
    /\ start_y = 0
    /\ Len(frames) = 3
    /\ \E cell \in Cells :
          /\ risk_grid[cell] = HazardFloor
          /\ frames[3][cell] = 0
          /\ \A other \in Cells \ {cell} : frames[3][other] = 255

\* Chebyshev distance of two cells
Chebyshev(a, b) ==
    LET dr == Abs(RowOf(a) - RowOf(b))
        dc == Abs(ColOf(a) - ColOf(b))
    IN IF dr >= dc THEN dr ELSE dc

-----------------------------------------------------------------------------
\* FireSimulationEngine.__init__, _load_geospatial_data and
\* get_pixel_from_gps.  Raster values are held times ten (a raster in [0, 1]
\* holds 0 .. 10, a raster in [0, 255] holds 0 .. 2550), so that the
\* normalised hazard comes out in tenths.

\* self.transform is None
NoTransform == [set |-> FALSE, west |-> 0, north |-> 0]

\* the affine transform of the raster files offered: north up, pixels of
\* one degree, the grid's upper left corner at lon = west, lat = north
FileTransform == [set |-> TRUE, west |-> 0, north |-> GridH - 1]

\* a readable raster file holding the given band
ReadableFile(band) ==
    [exists |-> TRUE, fault |-> "none", transform |-> FileTransform, band |-> band]

\* what can be at risk_map_path: no file; a file rasterio.open raises on; a
\* file whose src.read(1) raises; readable rasters in [0, 1]; readable
\* rasters in [0, 255]
RasterFiles ==
    { [exists |-> FALSE, fault |-> "none", transform |-> NoTransform, band |-> ZeroGrid],
      [exists |-> TRUE, fault |-> "open", transform |-> FileTransform, band |-> ZeroGrid],
      [exists |-> TRUE, fault |-> "read", transform |-> FileTransform, band |-> ZeroGrid] }
      \cup {ReadableFile(grid) : grid \in HazardGrids}
      \cup {ReadableFile([c \in Cells |-> 2040]),
            ReadableFile([c \in Cells |-> IF RowOf(c) = 0 THEN 2550 ELSE 510])}

\* data.max()
MaxOf(band) == CHOOSE v \in {band[c] : c \in Cells} : \A c \in Cells : band[c] <= v

\* line 24: data / 255.0 if data.max() > 1 else data, the result in tenths
Normalise(band) ==
    IF MaxOf(band) > 10 THEN [c \in Cells |-> band[c] \div 255] ELSE band

\* (a plausible slip: a missing or unreadable file raised to the caller)
LoadStrict(file) ==
    IF ~file.exists \/ file.fault # "none"
    THEN [risk_grid |-> ZeroGrid, transform |-> NoTransform, raised |-> TRUE]
    ELSE [risk_grid |-> Normalise(file.band), transform |-> file.transform,
          raised |-> FALSE]

\* _load_geospatial_data, lines 17-25, on the file at risk_map_path: the
\* grid it returns, self.transform as it leaves it, and whether it raised.
\* np.zeros((600, 800)) is the all-zero grid of the model's shape
LoadGeospatialData(file) ==
    IF ~file.exists
    THEN [risk_grid |-> ZeroGrid, transform |-> NoTransform, raised |-> FALSE]
    ELSE IF file.fault = "open"
    THEN [risk_grid |-> ZeroGrid, transform |-> NoTransform, raised |-> FALSE]
    ELSE IF file.fault = "read"
    THEN [risk_grid |-> ZeroGrid, transform |-> file.transform, raised |-> FALSE]
    ELSE [risk_grid |-> Normalise(file.band), transform |-> file.transform,
          raised |-> FALSE]

\* the value (None, None) of get_pixel_from_gps
NoPixel == <<>>

\* geographic coordinates offered to get_pixel_from_gps: the pixels of the
\* raster and a margin of one degree around it
GpsLats == -1 .. GridH
GpsLons == -1 .. GridW

\* get_pixel_from_gps, lines 27-34: <<col, row>> or NoPixel
PixelFromGps(tr, lat, lon) ==
    IF ~tr.set THEN NoPixel
    ELSE LET row == tr.north - lat
             col == lon - tr.west
         IN IF 0 <= row /\ row < GridH /\ 0 <= col /\ col < GridW
            THEN <<col, row>>
            ELSE NoPixel

\* get_lat_lon(x, y), lines 36-39: <<lat, lon>> of the pixel in column x and
\* row y, <<0, 0>> without a transform
LatLon(tr, x, y) ==
    IF ~tr.set THEN <<0, 0>> ELSE <<tr.north - y, tr.west + x>>

\* FireSimulationEngine(risk_map_path), lines 9-15
ConstructEngine ==
    /\ eng_pc = "new"
    /\ \E loaded \in {LoadGeospatialData(raster)} :
         /\ risk_grid' = loaded.risk_grid
         /\ transform' = loaded.transform
         /\ eng_pc' = IF loaded.raised THEN "raised" ELSE "built"
    /\ UNCHANGED <<raster, gp_pc, gp_arg, gp_result, sim_pc, start_x, start_y,
                   wind_speed, wind_dir, duration_hours, kernel, steps, step_k,
                   current_state, frames, sim_result, tacVars, allocVars,
                   routeVars, hvVars, labVars, fnVars>>

\* get_pixel_from_gps(lat, lon) on the engine built
GetPixelFromGps ==
    /\ eng_pc = "built"
    /\ gp_pc = "idle"
    /\ \E lat \in GpsLats, lon \in GpsLons :
         /\ gp_arg' = <<lat, lon>>
         /\ gp_result' = PixelFromGps(transform, lat, lon)
    /\ gp_pc' = "returned"
    /\ UNCHANGED <<raster, eng_pc, transform, simVars, tacVars, allocVars,
                   routeVars, hvVars, labVars, fnVars>>

GetPixelDone ==
    /\ gp_pc = "returned"
    /\ gp_pc' = "idle"
    /\ gp_arg' = <<0, 0>>
    /\ gp_result' = NoPixel
    /\ UNCHANGED <<raster, eng_pc, transform, simVars, tacVars, allocVars,
                   routeVars, hvVars, labVars, fnVars>>

\* before construction: any of the files at risk_map_path, no engine yet
EngInitNew ==
    /\ raster \in RasterFiles
    /\ eng_pc = "new"
    /\ transform = NoTransform
    /\ gp_pc = "idle"
    /\ gp_arg = <<0, 0>>
    /\ gp_result = NoPixel

\* after construction from a readable raster that holds risk_grid
EngInitBuilt ==
    /\ raster = ReadableFile(risk_grid)
    /\ eng_pc = "built"
    /\ transform = FileTransform
    /\ gp_pc = "idle"
    /\ gp_arg = <<0, 0>>
    /\ gp_result = NoPixel

LoadNext == ConstructEngine \/ GetPixelFromGps \/ GetPixelDone

\* C19 (load errors), as claimed: construction on a missing or unreadable
\* raster file ends by raising to the caller and leaves no engine to use.
C19_LoadErrorSurfaced ==
    (eng_pc # "new" /\ (~raster.exists \/ raster.fault # "none"))
        => eng_pc = "raised"

\* C19, as the code has it: construction on a missing or unreadable raster
\* file does not raise; it yields an engine whose risk_grid is the all-zero
\* fallback grid, and when the file is missing or cannot be opened its
\* transform is None, so that get_pixel_from_gps returns (None, None) for
\* every coordinate.
C19_LoadErrorSwallowed ==
    (eng_pc # "new" /\ (~raster.exists \/ raster.fault # "none"))
        => /\ eng_pc = "built"
           /\ risk_grid = ZeroGrid
           /\ (~raster.exists \/ raster.fault = "open") => transform = NoTransform
           /\ (gp_pc = "returned" /\ ~transform.set) => gp_result = NoPixel

\* an engine built on a missing file has answered get_pixel_from_gps for a
\* coordinate inside the raster
C19_Witness ==
    /\ eng_pc = "built"
    /\ ~raster.exists
    /\ gp_pc = "returned"
    /\ gp_arg = <<0, 0>>
    /\ gp_result = NoPixel

-----------------------------------------------------------------------------
\* FireSimulationEngine.analyze_tactics.  cv2.findContours is a library call:
\* its result, the list of external contours of the mask, is drawn from the
\* vertex sequences below that run over burning pixels of the mask.

Points == (0 .. MaxCoord) \X (0 .. MaxCoord)
ContourShapes == UNION {[1 .. n -> Points] : n \in 1 .. MaxVertices}
\* a second contour of the same mask: a lone pixel, or a unit square
OtherContours == { << <<0, 0>> >>,
                   << <<0, 0>>, <<0, 1>>, <<1, 1>>, <<1, 0>> >> }
ContourLists ==
    {<<>>} \cup {<<c>> : c \in ContourShapes}
           \cup {<<d, c>> : d \in OtherContours, c \in ContourShapes}
           \cup {<<c, d>> : d \in OtherContours, c \in ContourShapes}

\* the pixels <<x, y>> of a mask that burn
BurningPixels(mask) ==
    {<<x, y>> \in Cols \X Rows : mask[CellAt(y, x)] > 0}

VerticesOf(contours) ==
    UNION {{contours[c][i] : i \in 1 .. Len(contours[c])} : c \in 1 .. Len(contours)}

\* cv2.findContours(fire_mask, RETR_EXTERNAL, CHAIN_APPROX_SIMPLE): no contour
\* for a mask without a burning pixel; the one-point contour of the pixel for
\* a mask with a single burning pixel; otherwise one of the non-empty
\* lists of contours whose vertices are burning pixels
FindContours(mask) ==
    IF BurningPixels(mask) = {} THEN {<<>>}
    ELSE IF Cardinality(BurningPixels(mask)) = 1
    THEN {<< <<pt>> >> : pt \in BurningPixels(mask)}
    ELSE {contours \in ContourLists \ {<<>>} :
            VerticesOf(contours) \subseteq BurningPixels(mask)}

\* masks offered to analyze_tactics: nothing burning, a single burning
\* pixel, everything burning
FireMasks ==
    {ZeroGrid} \cup {[c \in Cells |-> IF c = k THEN 255 ELSE 0] : k \in Cells}
               \cup {[c \in Cells |-> 255]}

\* the value None of analyze_tactics; a result with targets has found = TRUE
NoTactics == [found |-> FALSE]

RECURSIVE SumSeq(_)
SumSeq(q) == IF q = <<>> THEN 0 ELSE Head(q) + SumSeq(Tail(q))

\* the vertex before vertex i on the closed contour
PrevVertex(c, i) == c[IF i = 1 THEN Len(c) ELSE i - 1]

\* Green's-formula sums of cv2.moments / cv2.contourArea over the closed
\* polygon: dxy = x_prev * y - x * y_prev on every edge
EdgeCross(c, i) == PrevVertex(c, i)[1] * c[i][2] - c[i][1] * PrevVertex(c, i)[2]
A00(c) == SumSeq([i \in 1 .. Len(c) |-> EdgeCross(c, i)])
A10(c) == SumSeq([i \in 1 .. Len(c) |->
                    EdgeCross(c, i) * (PrevVertex(c, i)[1] + c[i][1])])
A01(c) == SumSeq([i \in 1 .. Len(c) |->
                    EdgeCross(c, i) * (PrevVertex(c, i)[2] + c[i][2])])

\* cv2.contourArea(c), doubled: |a00|
ContourArea2(c) == Abs(A00(c))

\* cv2.moments(c): m00 = |a00| / 2, m10 = +-a10 / 6, m01 = +-a01 / 6 with
\* the sign of a00; here m00 doubled and m10, m01 times six
Moments(c) ==
    LET sgn == IF A00(c) > 0 THEN 1 ELSE -1
    IN IF A00(c) = 0
       THEN [m00x2 |-> 0, m10x6 |-> 0, m01x6 |-> 0]
       ELSE [m00x2 |-> sgn * A00(c), m10x6 |-> sgn * A10(c), m01x6 |-> sgn * A01(c)]

\* int(a / b) of Python: the quotient truncated toward zero
TruncDiv(a, b) ==
    IF (a >= 0) = (b > 0) THEN Abs(a) \div Abs(b) ELSE -(Abs(a) \div Abs(b))

\* cx = int(M["m10"] / M["m00"]) = int((m10x6 / 6) / (m00x2 / 2))
CentroidOf(M) == <<TruncDiv(M.m10x6, 3 * M.m00x2), TruncDiv(M.m01x6, 3 * M.m00x2)>>

\* max(contours, key=cv2.contourArea): the first contour of greatest area
RECURSIVE LargestFrom(_, _, _)
LargestFrom(contours, i, best) ==
    IF i > Len(contours) THEN best
    ELSE LargestFrom(contours, i + 1,
                     IF ContourArea2(contours[i]) > ContourArea2(contours[best])
                     THEN i ELSE best)
LargestContour(contours) == contours[LargestFrom(contours, 2, 1)]

\* (a plausible slip: the components of the spread vector exchanged)
DownwindVectorSwapped(dir) == <<SinK(dir - 90), CosK(dir - 90)>>

\* rad = math.radians(wind_dir - 90); vx = cos(rad); vy = sin(rad), unit 10^-3
DownwindVector(dir) == <<CosK(dir - 90), SinK(dir - 90)>>

\* px, py = -vy, vx
PerpVector(dir) == <<-DownwindVector(dir)[2], DownwindVector(dir)[1]>>

\* np.dot(pts - [cx, cy], [vx, vy]), one value per vertex
Projections(pts, centre, vec) ==
    [i \in 1 .. Len(pts) |->
        (pts[i][1] - centre[1]) * vec[1] + (pts[i][2] - centre[2]) * vec[2]]

\* np.argmax / np.argmin: the first index of the greatest / least value
ArgMax(vals) ==
    CHOOSE i \in 1 .. Len(vals) :
        /\ \A j \in 1 .. Len(vals) : vals[j] <= vals[i]
        /\ \A j \in 1 .. (i - 1) : vals[j] < vals[i]
ArgMin(vals) ==
    CHOOSE i \in 1 .. Len(vals) :
        /\ \A j \in 1 .. Len(vals) : vals[j] >= vals[i]
        /\ \A j \in 1 .. (i - 1) : vals[j] > vals[i]

\* lines 113-140 on the largest contour
TargetsOf(pts, centre, dir) ==
    LET projections == Projections(pts, centre, DownwindVector(dir))
        cross_prods == Projections(pts, centre, PerpVector(dir))
    IN [alpha |-> pts[ArgMax(projections)],
        bravo |-> pts[ArgMin(cross_prods)],
        charlie |-> pts[ArgMax(cross_prods)]]

\* (a plausible slip: the test of line 95 left out)
ZeroMassIgnored(M) == FALSE

\* line 95: M["m00"] == 0
ZeroMass(M) == M.m00x2 = 0

\* line 96 divides by M["m00"]: reached with m00 = 0 it raises
\* ZeroDivisionError
AnalyzeRaises(contours) ==
    /\ contours # <<>>
    /\ ~ZeroMass(Moments(LargestContour(contours)))
    /\ Moments(LargestContour(contours)).m00x2 = 0

\* the value analyze_tactics returns for a list of contours and a bearing
AnalyzeResult(contours, dir) ==
    IF contours = <<>> \/ AnalyzeRaises(contours) THEN NoTactics
    ELSE LET largest == LargestContour(contours)
             M == Moments(largest)
         IN IF ZeroMass(M) THEN NoTactics
            ELSE [found |-> TRUE,
                  targets |-> TargetsOf(largest, CentroidOf(M), dir),
                  centroid |-> CentroidOf(M)]

\* floor of the square root of n > 0, by Newton's iteration downwards from an
\* x that is not below it
RECURSIVE ISqrtFrom(_, _)
ISqrtFrom(n, x) ==
    LET y == (x + n \div x) \div 2
    IN IF y >= x THEN x ELSE ISqrtFrom(n, y)

\* the Euclidean length of the edge from p to q, in 10^-4 pixel units
EdgeLenE4(p, q) ==
    LET dx == Abs(q[1] - p[1])
        dy == Abs(q[2] - p[2])
    IN IF dx = 0 \/ dy = 0 THEN (dx + dy) * 10000
       ELSE ISqrtFrom((dx * dx + dy * dy) * 100000000, (dx + dy) * 10000)

\* cv2.arcLength(largest, True): the length of the closed curve, in 10^-4
\* pixel units
ArcLengthE4(c) ==
    SumSeq([i \in 1 .. Len(c) |-> EdgeLenE4(PrevVertex(c, i), c[i])])

NoMetrics == [perimeter_m |-> 0, total_liters |-> 0, sector_loads |-> <<>>]

\* (a plausible slip: the reported values rounded to the nearest integer
\* instead of truncated)
MetricsRounded(largest) ==
    LET perimeter_meters == ArcLengthE4(largest) * 20
        total_retardant == perimeter_meters * 5
    IN [perimeter_m |-> (perimeter_meters + 5000) \div 10000,
        total_liters |-> (total_retardant + 5000) \div 10000,
        sector_loads |-> << (total_retardant + 10000) \div 20000,
                            (total_retardant + 20000) \div 40000,
                            (total_retardant + 20000) \div 40000 >>]

\* lines 103-111 and 143-147: perimeter_meters = arcLength * 20.0,
\* total_retardant = perimeter_meters * 5.0, each reported value truncated by
\* int() on its own; sector_loads in the order Alpha Head, Bravo Flank,
\* Charlie Flank
MetricsOf(largest) ==
    LET perimeter_meters == ArcLengthE4(largest) * 20
        total_retardant == perimeter_meters * 5
    IN [perimeter_m |-> perimeter_meters \div 10000,
        total_liters |-> total_retardant \div 10000,
        sector_loads |-> << total_retardant \div 20000,
                            total_retardant \div 40000,
                            total_retardant \div 40000 >>]

AnalyzeTactics ==
    /\ tac_pc = "idle"
    /\ \E fire_mask \in FireMasks, dir \in Bearings :
       \E contours \in FindContours(fire_mask) :
         /\ tac_mask' = fire_mask
         /\ tac_raised' = AnalyzeRaises(contours)
         /\ tac_contours' = contours
         /\ tac_wind_dir' = dir
         /\ tac_largest' = IF contours = <<>> THEN <<>> ELSE LargestContour(contours)
         /\ tactics' = AnalyzeResult(contours, dir)
         /\ tac_metrics' = IF tactics'.found THEN MetricsOf(tac_largest')
                            ELSE NoMetrics
    /\ tac_pc' = "returned"
    /\ UNCHANGED notTacVars

\* the caller has taken the result
AnalyzeTacticsDone ==
    /\ tac_pc = "returned"
    /\ tac_pc' = "idle"
    /\ tac_mask' = ZeroGrid
    /\ tac_raised' = FALSE
    /\ tac_contours' = <<>>
    /\ tac_wind_dir' = 0
    /\ tac_largest' = <<>>
    /\ tactics' = NoTactics
    /\ tac_metrics' = NoMetrics
    /\ UNCHANGED notTacVars

TacInit ==
    /\ tac_pc = "idle"
    /\ tac_mask = ZeroGrid
    /\ tac_raised = FALSE
    /\ tac_contours = <<>>
    /\ tac_wind_dir = 0
    /\ tac_largest = <<>>
    /\ tactics = NoTactics
    /\ tac_metrics = NoMetrics

TacNext == AnalyzeTactics \/ AnalyzeTacticsDone

-----------------------------------------------------------------------------
\* Claims about analyze_tactics, checked under SpecTactics.

ProjOnto(pt, vec) == pt[1] * vec[1] + pt[2] * vec[2]
IsVertex(pt) == \E i \in 1 .. Len(tac_largest) : tac_largest[i] = pt

C17_NoFire ==
    tac_pc = "returned"
        => /\ ~tac_raised
           /\ (tac_contours = <<>> \/ A00(tac_largest) = 0) => tactics = NoTactics
           /\ Cardinality(BurningPixels(tac_mask)) <= 1 => tactics = NoTactics
           /\ tactics.found => A00(tac_largest) # 0

\* a mask with one burning pixel away from the origin: one contour of one
\* vertex, and None returned
C17_Witness ==
    /\ tac_pc = "returned"
    /\ BurningPixels(tac_mask) = {<<1, 0>>}
    /\ tac_contours = << << <<1, 0>> >> >>
    /\ tactics = NoTactics

\* C28 as stated: the reported total_liters is five times the reported perimeter_m,
\* the sector loads are 50%, 25% and 25% of that total, and the three loads
\* sum to total_liters.
C28_RetardantMetrics ==
    (tac_pc = "returned" /\ tactics # NoTactics) =>
        /\ tac_metrics.total_liters = 5 * tac_metrics.perimeter_m
        /\ 2 * tac_metrics.sector_loads[1] = tac_metrics.total_liters
        /\ 4 * tac_metrics.sector_loads[2] = tac_metrics.total_liters
        /\ 4 * tac_metrics.sector_loads[3] = tac_metrics.total_liters
        /\ SumSeq(tac_metrics.sector_loads) = tac_metrics.total_liters

\* C28 as the code has it: every reported value is truncated on its own from
\* the unrounded perimeter, so total_liters lies between 5 * perimeter_m and
\* 5 * perimeter_m + 4, the Alpha Head load is total_liters / 2 and the Bravo
\* Flank and Charlie Flank loads are total_liters / 4, each rounded down, and
\* the three loads sum to total_liters less at most 2.
C28_TruncatedMetrics ==
    (tac_pc = "returned" /\ tactics # NoTactics) =>
        /\ tac_metrics.total_liters >= 5 * tac_metrics.perimeter_m
        /\ tac_metrics.total_liters <= 5 * tac_metrics.perimeter_m + 4
        /\ tac_metrics.sector_loads[1] = tac_metrics.total_liters \div 2
        /\ tac_metrics.sector_loads[2] = tac_metrics.total_liters \div 4
        /\ tac_metrics.sector_loads[3] = tac_metrics.total_liters \div 4
        /\ SumSeq(tac_metrics.sector_loads) <= tac_metrics.total_liters
        /\ SumSeq(tac_metrics.sector_loads) >= tac_metrics.total_liters - 2

\* the triangle (0,0), (0,1), (1,0): arc length 2 + sqrt(2), reported as
\* 68 m and 341 litres with loads 170, 85 and 85
C28_Witness ==
    /\ tac_pc = "returned"
    /\ tactics # NoTactics
    /\ tac_largest = << <<0, 0>>, <<0, 1>>, <<1, 0>> >>
    /\ tac_metrics = [perimeter_m |-> 68, total_liters |-> 341,
                      sector_loads |-> <<170, 85, 85>>]

-----------------------------------------------------------------------------
\* QuantumResourceSolver

Range(q) == {q[i] : i \in 1 .. Len(q)}

\* self.fleet as __init__ builds it
Roster ==
    << [id |-> "TANKER-01", type |-> "Aerial", specialty |-> "Head"],
       [id |-> "ENGINE-A", type |-> "Ground", specialty |-> "Flank"],
       [id |-> "ENGINE-B", type |-> "Ground", specialty |-> "Flank"],
       [id |-> "DRONE-X1", type |-> "Intel", specialty |-> "Spot"],
       [id |-> "CREW-ZULU", type |-> "Ground", specialty |-> "Flank"] >>

\* target labels offered: the analyzer's three, and one more Head label
Labels == {"Alpha Head", "Bravo Flank", "Charlie Flank", "Spot Head"}

\* the characters of the strings the substring tests read
Chars(str) ==
    CASE str = "Head" -> <<"H", "e", "a", "d">>
      [] str = "Flank" -> <<"F", "l", "a", "n", "k">>
      [] str = "Spot" -> <<"S", "p", "o", "t">>
      [] str = "Alpha Head" -> <<"A", "l", "p", "h", "a", " ", "H", "e", "a", "d">>
      [] str = "Bravo Flank" -> <<"B", "r", "a", "v", "o", " ", "F", "l", "a", "n", "k">>
      [] str = "Charlie Flank" ->
            <<"C", "h", "a", "r", "l", "i", "e", " ", "F", "l", "a", "n", "k">>
      [] str = "Spot Head" -> <<"S", "p", "o", "t", " ", "H", "e", "a", "d">>
      [] str = "Delta Flank" -> <<"D", "e", "l", "t", "a", " ", "F", "l", "a", "n", "k">>
      [] str = "Echo Head" -> <<"E", "c", "h", "o", " ", "H", "e", "a", "d">>
      [] str = "Foxtrot" -> <<"F", "o", "x", "t", "r", "o", "t">>
      [] str = "Alpha" -> <<"A", "l", "p", "h", "a">>
      [] str = "TANKER" -> <<"T", "A", "N", "K", "E", "R">>
      [] str = "DRONE" -> <<"D", "R", "O", "N", "E">>
      [] str = "ENGINE" -> <<"E", "N", "G", "I", "N", "E">>
      [] str = "CREW" -> <<"C", "R", "E", "W">>
      [] str = "TANKER-01" -> <<"T", "A", "N", "K", "E", "R", "-", "0", "1">>
      [] str = "TANKER-02" -> <<"T", "A", "N", "K", "E", "R", "-", "0", "2">>
      [] str = "ENGINE-A" -> <<"E", "N", "G", "I", "N", "E", "-", "A">>
      [] str = "ENGINE-B" -> <<"E", "N", "G", "I", "N", "E", "-", "B">>
      [] str = "ENGINE-C" -> <<"E", "N", "G", "I", "N", "E", "-", "C">>
      [] str = "DRONE-X1" -> <<"D", "R", "O", "N", "E", "-", "X", "1">>
      [] str = "DRONE-X2" -> <<"D", "R", "O", "N", "E", "-", "X", "2">>
      [] str = "CREW-ZULU" -> <<"C", "R", "E", "W", "-", "Z", "U", "L", "U">>
      [] str = "CREW-ALPHA" -> <<"C", "R", "E", "W", "-", "A", "L", "P", "H", "A">>
      [] str = "TRUCK-9" -> <<"T", "R", "U", "C", "K", "-", "9">>

\* Python's `sub in text` on strings
Contains(sub, text) ==
    LET u == Chars(sub)
        t == Chars(text)
    IN \E i \in 1 .. (Len(t) - Len(u) + 1) : SubSeq(t, i, i + Len(u) - 1) = u

\* the coordinate each offered label comes with
CoordsOf(label) ==
    CASE label = "Alpha Head" -> <<1, 0>>
      [] label = "Bravo Flank" -> <<0, 0>>
      [] label = "Charlie Flank" -> <<0, 1>>
      [] label = "Spot Head" -> <<1, 1>>
      [] OTHER -> <<0, 0>>

\* targets.items(): an ordered mapping, so no label occurs twice
Injective(q) == \A i, j \in 1 .. Len(q) : q[i] = q[j] => i = j
LabelOrders == {q \in UNION {[1 .. n -> Labels] : n \in 0 .. MaxTargets} : Injective(q)}
ItemsOf(q) == [i \in 1 .. Len(q) |-> [t_name |-> q[i], t_coords |-> CoordsOf(q[i])]]
TargetMaps == {ItemsOf(q) : q \in LabelOrders}
\* the analyzer's targets, in the order analyze_tactics builds them
StandardTargets == ItemsOf(<<"Alpha Head", "Bravo Flank", "Charlie Flank">>)

\* mappings of more targets than the roster has units: one target and two
\* targets too many
LongTargetMaps ==
    { ItemsOf(<<"Bravo Flank", "Alpha Head", "Charlie Flank", "Foxtrot",
                "Delta Flank", "Spot Head">>),
      ItemsOf(<<"Foxtrot", "Echo Head", "Alpha Head", "Spot Head",
                "Bravo Flank", "Charlie Flank", "Delta Flank">>) }

\* values of one random.uniform(-5, 5) draw
NoiseValues == {-5, 0, 5}

SpecialtyBonus == 50
TypeBonus == 30

\* (a plausible slip: both bonuses left out, the noise alone decides)
ScoreNoiseOnly(asset, t_name, noise) == noise

\* (a plausible slip: the specialty bonus left out)
ScoreNoSpecialty(asset, t_name, noise) ==
    (IF asset.type = "Aerial" /\ Contains("Head", t_name) THEN TypeBonus ELSE 0)
      + noise

\* the score of one unit for one target, lines 37-48
Score(asset, t_name, noise) ==
    (IF Contains(asset.specialty, t_name) THEN SpecialtyBonus ELSE 0)
      + (IF asset.type = "Aerial" /\ Contains("Head", t_name) THEN TypeBonus ELSE 0)
      + noise

\* (a plausible slip: the comparison turned round, keeping the lowest score)
RECURSIVE WorstFrom(_, _, _, _, _)
WorstFrom(pool, t_name, noise, i, best) ==
    IF i > Len(pool) THEN best
    ELSE WorstFrom(pool, t_name, noise, i + 1,
                   IF best = 0 \/ Score(pool[i], t_name, noise[i])
                                    < Score(pool[best], t_name, noise[best])
                   THEN i ELSE best)
PickWorst(pool, t_name, noise) ==
    LET b == WorstFrom(pool, t_name, noise, 1, 0)
    IN IF b = 0 THEN <<>> ELSE <<pool[b]>>

\* (a plausible slip: score >= best_score, so that the last unit of equal
\* score wins)
RECURSIVE BestFromLast(_, _, _, _, _)
BestFromLast(pool, t_name, noise, i, best) ==
    IF i > Len(pool) THEN best
    ELSE BestFromLast(pool, t_name, noise, i + 1,
                      IF best = 0 \/ Score(pool[i], t_name, noise[i])
                                       >= Score(pool[best], t_name, noise[best])
                      THEN i ELSE best)

\* the scoring loop, lines 33-52: best_score starts at -inf (best = 0) and a
\* unit replaces the best only with a strictly greater score
RECURSIVE BestFrom(_, _, _, _, _)
BestFrom(pool, t_name, noise, i, best) ==
    IF i > Len(pool) THEN best
    ELSE BestFrom(pool, t_name, noise, i + 1,
                  IF best = 0 \/ Score(pool[i], t_name, noise[i])
                                   > Score(pool[best], t_name, noise[best])
                  THEN i ELSE best)

\* best_asset after the scoring loop: <<>> for None
PickBest(pool, t_name, noise) ==
    LET b == BestFrom(pool, t_name, noise, 1, 0)
    IN IF b = 0 THEN <<>> ELSE <<pool[b]>>

\* (a plausible slip: the comprehension compares the type, not the id)
RECURSIVE RemoveByType(_, _)
RemoveByType(pool, id) ==
    IF pool = <<>> THEN <<>>
    ELSE IF \E unit \in Range(Roster) : unit.id = id /\ unit.type = Head(pool).type
         THEN RemoveByType(Tail(pool), id)
         ELSE <<Head(pool)>> \o RemoveByType(Tail(pool), id)

\* (a plausible slip: the comprehension keeps every unit)
RemoveNothing(pool, id) == pool

\* [a for a in self.fleet if a['id'] != best_asset['id']]
RECURSIVE RemoveAsset(_, _)
RemoveAsset(pool, id) ==
    IF pool = <<>> THEN <<>>
    ELSE IF Head(pool).id = id THEN RemoveAsset(Tail(pool), id)
         ELSE <<Head(pool)>> \o RemoveAsset(Tail(pool), id)

\* (a plausible slip: the reset at the end of the call left out)
KeepFleet(current) == current

\* self.__init__() at line 64
ResetFleet(current) == Roster

Callers == {1, 2}

\* optimize_response, lines 27-32: a call begins
OptimizeBegin(p, maps, calls) ==
    /\ a_pc[p] = "idle"
    /\ a_calls[p] < calls
    /\ a_calls' = [a_calls EXCEPT ![p] = @ + 1]
    /\ \E targets \in maps : a_targets' = [a_targets EXCEPT ![p] = targets]
    /\ a_solution' = [a_solution EXCEPT ![p] = <<>>]
    /\ a_k' = [a_k EXCEPT ![p] = 1]
    /\ a_pc' = [a_pc EXCEPT ![p] = "loop"]
    /\ UNCHANGED <<fleet, a_pool, a_best, a_scores, a_tmp, notAllocVars>>

\* lines 33-59: score every unit of self.fleet for the next target and append
\* the assignment of the best one
ScoreTarget(p) ==
    /\ a_pc[p] = "loop"
    /\ a_k[p] <= Len(a_targets[p])
    /\ \E noise \in [1 .. Len(fleet) -> NoiseValues] :
       \E best_asset \in {PickBest(fleet, a_targets[p][a_k[p]].t_name, noise)} :
         IF best_asset # <<>>
         THEN /\ a_pool' = [a_pool EXCEPT ![p] = fleet]
              /\ a_best' = [a_best EXCEPT ![p] = best_asset]
              /\ a_scores' = [a_scores EXCEPT ![p] =
                    [i \in 1 .. Len(fleet) |->
                        Score(fleet[i], a_targets[p][a_k[p]].t_name, noise[i])]]
              /\ a_solution' = [a_solution EXCEPT ![p] =
                    Append(@, [asset_id |-> best_asset[1].id,
                               target |-> a_targets[p][a_k[p]].t_name,
                               coords |-> a_targets[p][a_k[p]].t_coords])]
              /\ a_pc' = [a_pc EXCEPT ![p] = "filter"]
              /\ a_k' = a_k
         ELSE /\ a_k' = [a_k EXCEPT ![p] = @ + 1]
              /\ UNCHANGED <<a_pool, a_best, a_scores, a_solution, a_pc>>
    /\ UNCHANGED <<fleet, a_targets, a_tmp, a_calls, notAllocVars>>

\* line 61, right-hand side: self.fleet is read and filtered
FilterFleet(p) ==
    /\ a_pc[p] = "filter"
    /\ a_tmp' = [a_tmp EXCEPT ![p] = RemoveAsset(fleet, a_best[p][1].id)]
    /\ a_pc' = [a_pc EXCEPT ![p] = "store"]
    /\ a_scores' = [a_scores EXCEPT ![p] = <<>>]
    /\ UNCHANGED <<fleet, a_targets, a_k, a_pool, a_best, a_solution, a_calls,
                   notAllocVars>>

\* line 61, the assignment: the filtered list becomes self.fleet; the
\* iteration's temporaries are dead from here on
StoreFleet(p) ==
    /\ a_pc[p] = "store"
    /\ fleet' = a_tmp[p]
    /\ a_k' = [a_k EXCEPT ![p] = @ + 1]
    /\ a_pc' = [a_pc EXCEPT ![p] = "loop"]
    /\ a_pool' = [a_pool EXCEPT ![p] = <<>>]
    /\ a_best' = [a_best EXCEPT ![p] = <<>>]
    /\ a_tmp' = [a_tmp EXCEPT ![p] = <<>>]
    /\ UNCHANGED <<a_targets, a_scores, a_solution, a_calls, notAllocVars>>

\* lines 64-65: the fleet is reset and the solution returned
ResetAndReturn(p) ==
    /\ a_pc[p] = "loop"
    /\ a_k[p] > Len(a_targets[p])
    /\ fleet' = ResetFleet(fleet)
    /\ a_pc' = [a_pc EXCEPT ![p] = "returned"]
    /\ UNCHANGED <<a_targets, a_k, a_pool, a_best, a_scores, a_tmp, a_solution,
                   a_calls, notAllocVars>>

\* the caller has taken the solution and the call's locals are gone
OptimizeDone(p) ==
    /\ a_pc[p] = "returned"
    /\ a_pc' = [a_pc EXCEPT ![p] = "idle"]
    /\ a_targets' = [a_targets EXCEPT ![p] = <<>>]
    /\ a_k' = [a_k EXCEPT ![p] = 0]
    /\ a_pool' = [a_pool EXCEPT ![p] = <<>>]
    /\ a_best' = [a_best EXCEPT ![p] = <<>>]
    /\ a_tmp' = [a_tmp EXCEPT ![p] = <<>>]
    /\ a_solution' = [a_solution EXCEPT ![p] = <<>>]
    /\ UNCHANGED <<fleet, a_scores, a_calls, notAllocVars>>

AllocInit ==
    /\ fleet = Roster
    /\ a_pc = [p \in Callers |-> "idle"]
    /\ a_targets = [p \in Callers |-> <<>>]
    /\ a_k = [p \in Callers |-> 0]
    /\ a_pool = [p \in Callers |-> <<>>]
    /\ a_best = [p \in Callers |-> <<>>]
    /\ a_scores = [p \in Callers |-> <<>>]
    /\ a_tmp = [p \in Callers |-> <<>>]
    /\ a_solution = [p \in Callers |-> <<>>]
    /\ a_calls = [p \in Callers |-> 0]

\* one caller at a time: each call runs to its end before the next begins
AllocNext ==
    \/ OptimizeBegin(1, TargetMaps \cup LongTargetMaps, MaxCalls)
    \/ ScoreTarget(1)
    \/ FilterFleet(1)
    \/ StoreFleet(1)
    \/ ResetAndReturn(1)
    \/ OptimizeDone(1)

\* two sessions calling the one cached solver with the analyzer's targets,
\* one call each, their steps interleaved
ConcNext ==
    \E p \in Callers :
        \/ OptimizeBegin(p, {StandardTargets}, 1)
        \/ ScoreTarget(p)
        \/ FilterFleet(p)
        \/ StoreFleet(p)
        \/ ResetAndReturn(p)

-----------------------------------------------------------------------------
\* Claims about optimize_response.

AssetsOf(solution) == [i \in 1 .. Len(solution) |-> solution[i].asset_id]
TargetsIn(solution) == [i \in 1 .. Len(solution) |-> solution[i].target]

\* the roster without the units a call has picked before its current target
EarlierPicks(p) ==
    {a_solution[p][i].asset_id : i \in 1 .. (Len(a_solution[p]) - 1)}
RosterWithout(ids) == SelectSeq(Roster, LAMBDA unit : unit.id \notin ids)

\* C7 (assignment uniqueness), under SpecAlloc: in the solution of a call no
\* asset id and no target label occurs in more than one assignment.
C7_Unique ==
    \A p \in Callers :
        /\ Injective(AssetsOf(a_solution[p]))
        /\ Injective(TargetsIn(a_solution[p]))

\* a returned call with three assignments, two of them for Flank targets
C7_Witness ==
    /\ a_pc[1] = "returned"
    /\ Len(a_solution[1]) = 3
    /\ a_solution[1][1].target = "Bravo Flank"
    /\ a_solution[1][2].target = "Charlie Flank"

\* C8 (fresh roster per call), under SpecAlloc: between calls self.fleet is
\* the full five-unit roster whatever calls came before, and the pool a call
\* scores for a target is the full roster less the units that call itself
\* has picked.
C8_FreshRoster ==
    /\ a_pc[1] \in {"idle", "returned"} => fleet = Roster
    /\ a_pc[1] = "filter" => a_pool[1] = RosterWithout(EarlierPicks(1))
    /\ Len(Roster) = 5

\* the second call of a session scoring its first target, after a first call
C8_Witness ==
    /\ a_calls[1] = 2
    /\ a_pc[1] = "filter"
    /\ a_k[1] = 1
    /\ Len(a_pool[1]) = 5

\* C9 (roster isolation), under SpecConc, as claimed: with two calls
\* interleaved on the shared solver, the pool each call scores is the full
\* roster less its own earlier picks, and each call's solution holds every
\* asset at most once.
C9_RosterIsolation ==
    \A p \in Callers :
        /\ a_pc[p] = "filter" => a_pool[p] = RosterWithout(EarlierPicks(p))
        /\ Injective(AssetsOf(a_solution[p]))

\* C9, its last part alone: no call returns a solution naming an asset twice.
C9_NoAssetTwice ==
    \A p \in Callers :
        a_pc[p] = "returned" => Injective(AssetsOf(a_solution[p]))

\* C10 (aerial unit on the head), under SpecAlloc: when the target scored is
\* "Alpha Head" and the pool holds exactly one Aerial unit, that unit is the
\* one assigned, for every noise drawn.
AerialIn(pool) == {i \in 1 .. Len(pool) : pool[i].type = "Aerial"}

C10_AerialOnHead ==
    \A p \in Callers :
        (/\ a_pc[p] = "filter"
         /\ a_targets[p][a_k[p]].t_name = "Alpha Head"
         /\ Cardinality(AerialIn(a_pool[p])) = 1)
            => /\ a_best[p][1].type = "Aerial"
               /\ a_best[p][1].id = "TANKER-01"
               /\ a_solution[p][Len(a_solution[p])] =
                     [asset_id |-> "TANKER-01", target |-> "Alpha Head",
                      coords |-> CoordsOf("Alpha Head")]

\* Alpha Head scored as the second target, the tanker still in a pool of four
C10_Witness ==
    /\ a_pc[1] = "filter"
    /\ a_k[1] = 2
    /\ a_targets[1][2].t_name = "Alpha Head"
    /\ Len(a_pool[1]) = 4
    /\ a_best[1][1].id = "TANKER-01"

\* C11 (partial allocation), under SpecAlloc: a call returns exactly
\* min(#targets, 5) assignments, and they are for the first targets of the
\* mapping, in its order; with more targets than units the scoring loop finds
\* an empty pool for the remaining targets and appends nothing for them.
Min(a, b) == IF a < b THEN a ELSE b

C11_PartialAllocation ==
    /\ a_pc[1] = "returned" =>
          /\ Len(a_solution[1]) = Min(Len(a_targets[1]), 5)
          /\ \A i \in 1 .. Len(a_solution[1]) :
                /\ a_solution[1][i].target = a_targets[1][i].t_name
                /\ a_solution[1][i].coords = a_targets[1][i].t_coords
    /\ (a_pc[1] = "loop" /\ a_k[1] > Len(Roster)) =>
          /\ fleet = <<>>
          /\ Len(a_solution[1]) = Len(Roster)

\* a call with seven targets has returned five assignments
C11_Witness ==
    /\ a_pc[1] = "returned"
    /\ Len(a_targets[1]) = 7
    /\ Len(a_solution[1]) = 5
    /\ a_solution[1][5].target = "Bravo Flank"

\* the score of a unit for a label before the noise: 50 if its specialty
\* occurs in the label, plus 30 if it is Aerial and the label contains "Head"
BaseScore(unit, label) ==
    (IF Contains(unit.specialty, label) THEN 50 ELSE 0)
      + (IF unit.type = "Aerial" /\ Contains("Head", label) THEN 30 ELSE 0)

\* the place in the pool of the unit picked
PickedIndex(p) ==
    CHOOSE b \in 1 .. Len(a_pool[p]) : a_pool[p][b] = a_best[p][1]

\* C24 (greedy pick in target order), under SpecAlloc: the assignments come
\* in the order of the targets, the k-th carrying the k-th target's label and
\* coordinate; when the scoring loop is left, every unit's score is its base
\* score plus a noise in [-5, 5], the picked unit's score is >= that of
\* every unit of the pool, and of the units of that greatest score the
\* picked one is the earliest (so with all noise zero a tie of base scores
\* goes to the earliest unit of the roster order).
C24_GreedyInOrder ==
    /\ \A i \in 1 .. Len(a_solution[1]) :
          /\ a_solution[1][i].target = a_targets[1][i].t_name
          /\ a_solution[1][i].coords = a_targets[1][i].t_coords
    /\ a_pc[1] = "filter" =>
          LET pool == a_pool[1]
              label == a_targets[1][a_k[1]].t_name
              b == PickedIndex(1)
          IN /\ Len(a_solution[1]) = a_k[1]
             /\ a_solution[1][a_k[1]].asset_id = a_best[1][1].id
             /\ pool = fleet
             /\ Len(a_scores[1]) = Len(pool)
             /\ \A j \in 1 .. Len(pool) :
                   /\ a_scores[1][j] - BaseScore(pool[j], label) >= -5
                   /\ a_scores[1][j] - BaseScore(pool[j], label) <= 5
                   /\ a_scores[1][j] <= a_scores[1][b]
                   /\ j < b => a_scores[1][j] < a_scores[1][b]
             /\ (\A j \in 1 .. Len(pool) : a_scores[1][j] = BaseScore(pool[j], label))
                   => \A j \in 1 .. Len(pool) :
                         /\ BaseScore(pool[j], label) <= BaseScore(pool[b], label)
                         /\ j < b => BaseScore(pool[j], label) < BaseScore(pool[b], label)

\* Bravo Flank scored second with all noise zero: the three Flank units tie
\* at 50 and ENGINE-A, the earliest of them, is picked
C24_Witness ==
    /\ a_pc[1] = "filter"
    /\ a_k[1] = 2
    /\ a_targets[1][2].t_name = "Bravo Flank"
    /\ Len(a_pool[1]) = 4
    /\ \A j \in 1 .. 4 : a_scores[1][j] = BaseScore(a_pool[1][j], "Bravo Flank")
    /\ Cardinality({j \in 1 .. 4 : a_scores[1][j] = 50}) = 3
    /\ a_best[1][1].id = "ENGINE-A"

\* C25 (standard three-target outcome), under SpecAlloc: a call with the
\* targets Alpha Head, Bravo Flank, Charlie Flank in that order, whatever the
\* noise, assigns TANKER-01 to Alpha Head and two distinct units out of
\* ENGINE-A, ENGINE-B, CREW-ZULU to Bravo Flank and Charlie Flank; DRONE-X1 is
\* never assigned.
C25_StandardOutcome ==
    (/\ a_pc[1] \in {"loop", "filter", "store", "returned"}
     /\ [i \in 1 .. Len(a_targets[1]) |-> a_targets[1][i].t_name]
            = <<"Alpha Head", "Bravo Flank", "Charlie Flank">>)
        => /\ \A i \in 1 .. Len(a_solution[1]) :
                 /\ a_solution[1][i].asset_id # "DRONE-X1"
                 /\ i = 1 => a_solution[1][i] =
                        [asset_id |-> "TANKER-01", target |-> "Alpha Head",
                         coords |-> a_targets[1][1].t_coords]
                 /\ i > 1 => a_solution[1][i].asset_id
                                 \in {"ENGINE-A", "ENGINE-B", "CREW-ZULU"}
           /\ Injective(AssetsOf(a_solution[1]))
           /\ a_pc[1] = "returned" =>
                 /\ Len(a_solution[1]) = 3
                 /\ a_solution[1][2].target = "Bravo Flank"
                 /\ a_solution[1][3].target = "Charlie Flank"

\* a returned call on the three targets in which the noise decided the
\* flanks: CREW-ZULU on Bravo Flank, ENGINE-B on Charlie Flank
C25_Witness ==
    /\ a_pc[1] = "returned"
    /\ Len(a_targets[1]) = 3
    /\ a_targets[1][1].t_name = "Alpha Head"
    /\ a_targets[1][2].t_name = "Bravo Flank"
    /\ a_targets[1][3].t_name = "Charlie Flank"
    /\ AssetsOf(a_solution[1]) = <<"TANKER-01", "CREW-ZULU", "ENGINE-B">>

-----------------------------------------------------------------------------
\* LogisticsRouter.  Geographic points are <<lat, lon>> in whole degrees, on
\* the lattice on which the trigonometric functions of _haversine take
\* rational values: lat in {-60, 0, 60}, lon a multiple of 60.  The bases of
\* the table, the road nodes and the targets are placed on that lattice.

Lats == {-60, 0, 60}
Lons == {-120, -60, 0, 60, 120, 180}
LatLons == Lats \X Lons

\* math.sin(math.radians(d) / 2) ** 2 for a difference d of two lattice
\* angles, in quarters
SinHalfSq(d) ==
    CASE d \in {0, 360, -360} -> 0
      [] d \in {60, -60, 300, -300} -> 1
      [] d \in {120, -120, 240, -240} -> 3
      [] d \in {180, -180} -> 4

\* math.cos(math.radians(lat)), in halves
CosLat(lat) ==
    CASE lat = 0 -> 2
      [] lat \in {60, -60} -> 1

\* R * 2 * math.atan2(math.sqrt(a), math.sqrt(1 - a)) with R = 6371, for a
\* in sixteenths; the result in metres
ArcM(a16) ==
    CASE a16 = 0 -> 0
      [] a16 = 1 -> 3219652
      [] a16 = 2 -> 4604540
      [] a16 = 3 -> 5706280
      [] a16 = 4 -> 6671696
      [] a16 = 5 -> 7558552
      [] a16 = 6 -> 8397717
      [] a16 = 7 -> 9209080
      [] a16 = 8 -> 10007543
      [] a16 = 9 -> 10806007
      [] a16 = 10 -> 11617369
      [] a16 = 11 -> 12456535
      [] a16 = 12 -> 13343391
      [] a16 = 13 -> 14308806
      [] a16 = 14 -> 15410547
      [] a16 = 15 -> 16795435
      [] a16 = 16 -> 20015087

\* (a plausible slip: the cosine of lat1 taken twice)
HaversineLat1Twice(lat1, lon1, lat2, lon2) ==
    LET dlat == lat2 - lat1
        dlon == lon2 - lon1
        a == 4 * SinHalfSq(dlat) + CosLat(lat1) * CosLat(lat1) * SinHalfSq(dlon)
    IN ArcM(a)

\* _haversine, lines 115-121: the distance in metres (the source's
\* kilometres times 1000)
Haversine(lat1, lon1, lat2, lon2) ==
    LET dlat == lat2 - lat1
        dlon == lon2 - lon1
        a == 4 * SinHalfSq(dlat) + CosLat(lat1) * CosLat(lat2) * SinHalfSq(dlon)
    IN ArcM(a)

\* one use of _haversine on two points, in both orders and on a point
\* with itself
HaversineCall ==
    /\ h_pc = "idle"
    /\ \E a \in LatLons, b \in LatLons :
         /\ h_a' = a
         /\ h_b' = b
         /\ h_ab' = Haversine(a[1], a[2], b[1], b[2])
         /\ h_ba' = Haversine(b[1], b[2], a[1], a[2])
         /\ h_aa' = Haversine(a[1], a[2], a[1], a[2])
    /\ h_pc' = "returned"
    /\ UNCHANGED notHvVars

HaversineDone ==
    /\ h_pc = "returned"
    /\ h_pc' = "idle"
    /\ UNCHANGED <<h_a, h_b, h_ab, h_ba, h_aa, notHvVars>>

HvInit ==
    /\ h_pc = "idle"
    /\ h_a = <<0, 0>>
    /\ h_b = <<0, 0>>
    /\ h_ab = 0
    /\ h_ba = 0
    /\ h_aa = 0

HvNext == HaversineCall \/ HaversineDone

\* C20 (haversine), under SpecHaversine: the distance of a point to itself
\* is 0, and the distance from a to b equals the distance from b to a.
C20_Haversine ==
    h_pc = "returned" => (h_aa = 0 /\ h_ab = h_ba)

\* two points of different latitude and longitude, a positive distance apart
C20_Witness ==
    /\ h_pc = "returned"
    /\ h_a[1] # h_b[1]
    /\ h_a[2] # h_b[2]
    /\ h_ab > 0
    /\ h_ab = h_ba

-----------------------------------------------------------------------------
\* LogisticsRouter.calculate_route

\* self.BASES, lines 15-21; each base on a lattice point of its own
BaseKeys == {"TANKER", "ENGINE-A", "ENGINE-B", "CREW-ZULU", "DRONE-X1"}
BASES ==
    [key \in BaseKeys |->
        CASE key = "TANKER" ->
               [lat |-> 60, lon |-> -120, name |-> "Manzanillo Intl Airport (ZLO)"]
          [] key = "ENGINE-A" ->
               [lat |-> 0, lon |-> -120, name |-> "Bomberos Manzanillo Central"]
          [] key = "ENGINE-B" ->
               [lat |-> 60, lon |-> -60, name |-> "Station 2 - Santiago"]
          [] key = "CREW-ZULU" ->
               [lat |-> -60, lon |-> -120, name |-> "Foward Ops Base"]
          [] key = "DRONE-X1" ->
               [lat |-> -60, lon |-> -60, name |-> "Port Command"]]

\* self.SPEEDS, line 23, in km/h
SpeedAir == 250
SpeedRoad == 50
SpeedOffroad == 15

\* asset ids offered: the five of the roster, and further ids of each type
\* prefix and of none
AssetIds == {"TANKER-01", "ENGINE-A", "ENGINE-B", "DRONE-X1", "CREW-ZULU",
             "TANKER-02", "ENGINE-C", "DRONE-X2", "CREW-ALPHA", "TRUCK-9"}

\* self.graph is None: the file is missing or could not be loaded
NoGraph == [loaded |-> FALSE, nodes |-> {}, edges |-> {}]

\* node coordinates (y = lat, x = lon) of the road graphs offered
NodeY(n) == CASE n \in {1, 2, 3} -> 0
              [] n = 4 -> 60
              [] n = 5 -> -60
NodeX(n) == CASE n = 1 -> -60
              [] n \in {2, 4} -> 0
              [] n = 3 -> 60
              [] n = 5 -> 180

\* edge attribute 'length', in metres
EdgeLength(e) ==
    IF e \in {<<1, 2>>, <<2, 1>>, <<2, 3>>, <<3, 2>>} THEN 1000 ELSE 3000

\* road graphs a router can hold after _load_network: none; a graph without
\* nodes; a lone node; a street 1 - 2 - 3 with a detour 1 - 4 - 3 and a node
\* 5 no road leads to; the same street with one-way roads only
RoadGraphs ==
    { NoGraph,
      [loaded |-> TRUE, nodes |-> {}, edges |-> {}],
      [loaded |-> TRUE, nodes |-> {2}, edges |-> {}],
      [loaded |-> TRUE, nodes |-> {1, 2, 3, 4, 5},
       edges |-> {<<1, 2>>, <<2, 1>>, <<2, 3>>, <<3, 2>>,
                  <<1, 4>>, <<4, 1>>, <<4, 3>>, <<3, 4>>}],
      [loaded |-> TRUE, nodes |-> {1, 2, 3, 4},
       edges |-> {<<1, 2>>, <<2, 3>>, <<4, 1>>, <<3, 4>>}] }

\* target coordinates offered
RouteTargets == {<<0, 120>>, <<0, 0>>, <<-60, 180>>, <<60, 60>>, <<0, -60>>}

\* avoid polygons offered, as lists of (lat, lon): None; a triangle; a
\* rectangle around node 2, with four and with five points; a rectangle
\* around the whole street; a rectangle of no width
AvoidPolygons ==
    { <<>>,
      << <<-60, -60>>, <<60, -60>>, <<60, 60>> >>,
      << <<-60, -60>>, <<60, -60>>, <<60, 60>>, <<-60, 60>> >>,
      << <<-60, -60>>, <<60, -60>>, <<60, 60>>, <<-60, 60>>, <<-60, -60>> >>,
      << <<-60, -120>>, <<60, -120>>, <<60, 120>>, <<-60, 120>> >>,
      << <<0, -60>>, <<0, 60>>, <<0, 60>>, <<0, -60>> >> }

\* lines 36-40: the key of the base
ResolveBase(asset_id) ==
    LET base_key == IF Contains("TANKER", asset_id) THEN "TANKER" ELSE asset_id
    IN IF base_key \in DOMAIN BASES THEN base_key
       ELSE IF Contains("ENGINE", asset_id) THEN "ENGINE-A"
       ELSE IF Contains("CREW", asset_id) THEN "CREW-ZULU"
       ELSE "ENGINE-A"

\* (a plausible slip: only tankers routed by air)
IsAirTankerOnly(asset_id) == Contains("TANKER", asset_id)

\* line 44
IsAir(asset_id) == Contains("TANKER", asset_id) \/ Contains("DRONE", asset_id)

\* `if self.graph:` - None is false, and a networkx graph is false when it
\* has no nodes
GraphTruthy(G) == G.loaded /\ G.nodes # {}

\* buffer(-0.0001), in units of 10^-4 degree
BufferE4 == 1

Least(S) == CHOOSE x \in S : \A y \in S : x <= y
Greatest(S) == CHOOSE x \in S : \A y \in S : x >= y

\* Polygon(avoid_polygon): the polygons offered are rectangles with sides
\* along the axes, given here by their least and greatest lat and lon
PolygonOf(avoid_polygon) ==
    [lo_lat |-> Least({avoid_polygon[i][1] : i \in 1 .. Len(avoid_polygon)}),
     hi_lat |-> Greatest({avoid_polygon[i][1] : i \in 1 .. Len(avoid_polygon)}),
     lo_lon |-> Least({avoid_polygon[i][2] : i \in 1 .. Len(avoid_polygon)}),
     hi_lon |-> Greatest({avoid_polygon[i][2] : i \in 1 .. Len(avoid_polygon)})]

\* buffered_poly.is_empty: shrinking by the buffer from both sides leaves
\* nothing of a rectangle no wider than twice the buffer
BufferedIsEmpty(poly) ==
    \/ (poly.hi_lat - poly.lo_lat) * 10000 <= 2 * BufferE4
    \/ (poly.hi_lon - poly.lo_lon) * 10000 <= 2 * BufferE4

\* buffered_poly.contains(Point(lat, lon)): the point lies in the interior
\* of the shrunk rectangle
BufferedContains(poly, lat, lon) ==
    /\ ~BufferedIsEmpty(poly)
    /\ (lat - poly.lo_lat) * 10000 > BufferE4
    /\ (poly.hi_lat - lat) * 10000 > BufferE4
    /\ (lon - poly.lo_lon) * 10000 > BufferE4
    /\ (poly.hi_lon - lon) * 10000 > BufferE4

\* line 63
UnsafeNodes(G, avoid_polygon) ==
    {n \in G.nodes : BufferedContains(PolygonOf(avoid_polygon), NodeY(n), NodeX(n))}

\* (a plausible slip: the unsafe nodes found but the whole graph routed on)
RoutingNodesUnfiltered(G, avoid_polygon) == G.nodes

\* lines 50-66: the nodes of routing_graph
RoutingNodes(G, avoid_polygon) ==
    IF avoid_polygon # <<>> /\ Len(avoid_polygon) > 3
    THEN IF ~BufferedIsEmpty(PolygonOf(avoid_polygon))
            /\ UnsafeNodes(G, avoid_polygon) # {}
         THEN G.nodes \ UnsafeNodes(G, avoid_polygon)
         ELSE G.nodes
    ELSE G.nodes

\* ox.distance.nearest_nodes(routing_graph, lon, lat): a node at the least
\* great-circle distance; no node at all when the graph has none (the call
\* raises)
NearestNodes(nodes, lat, lon) ==
    {n \in nodes : \A m \in nodes :
        Haversine(NodeY(n), NodeX(n), lat, lon) <= Haversine(NodeY(m), NodeX(m), lat, lon)}

\* the simple paths of routing_graph from orig to dest
IsPath(G, nodes, q, orig, dest) ==
    /\ q[1] = orig
    /\ q[Len(q)] = dest
    /\ \A i \in 1 .. Len(q) : q[i] \in nodes
    /\ \A i, j \in 1 .. Len(q) : q[i] = q[j] => i = j
    /\ \A i \in 1 .. (Len(q) - 1) : <<q[i], q[i + 1]>> \in G.edges
PathsBetween(G, nodes, orig, dest) ==
    {q \in UNION {[1 .. n -> nodes] : n \in 1 .. Cardinality(nodes)} :
        IsPath(G, nodes, q, orig, dest)}

\* nx.path_weight(routing_graph, node_path, weight='length')
PathWeight(q) == SumSeq([i \in 1 .. (Len(q) - 1) |-> EdgeLength(<<q[i], q[i + 1]>>)])

\* nx.shortest_path(routing_graph, orig, dest, weight='length'): a path of
\* least weight; none when dest cannot be reached (the call raises)
ShortestPaths(G, nodes, orig, dest) ==
    LET all == PathsBetween(G, nodes, orig, dest)
    IN {q \in all : \A o \in all : PathWeight(q) <= PathWeight(o)}

\* round(km, 2), from metres, in hundredths of a kilometre
RoundKm2(metres) == (metres + 5) \div 10

\* _make_direct_route, lines 105-113
MakeDirectRoute(start, target, speed_kmh, mode) ==
    LET dist_m == Haversine(start.lat, start.lon, target[1], target[2])
        duration == ((dist_m * 3) \div (50 * speed_kmh)) + 2
    IN [origin |-> start.name,
        distance_km |-> RoundKm2(dist_m),
        duration_min |-> IF duration > 1 THEN duration ELSE 1,
        path |-> <<<<start.lat, start.lon>>, target>>,
        type |-> mode]

\* (a plausible slip: line 81 left out, the path ends at the last road node)
PathCoordsNoTarget(start, node_path, target) ==
    <<<<start.lat, start.lon>>>>
      \o [i \in 1 .. Len(node_path) |-> <<NodeY(node_path[i]), NodeX(node_path[i])>>]

\* lines 77-81
PathCoords(start, node_path, target) ==
    <<<<start.lat, start.lon>>>>
      \o [i \in 1 .. Len(node_path) |-> <<NodeY(node_path[i]), NodeX(node_path[i])>>]
      \o <<target>>

\* (a plausible slip: the last mile timed at road speed)
SmartRouteRoadSpeed(start, node_path, dest_node, target) ==
    LET road_dist_m == PathWeight(node_path)
        hike_m == Haversine(NodeY(dest_node), NodeX(dest_node), target[1], target[2])
        duration == ((3 * road_dist_m + 3 * hike_m) \div 2500) + 2
    IN [origin |-> start.name,
        distance_km |-> RoundKm2(road_dist_m + hike_m),
        duration_min |-> IF duration > 1 THEN duration ELSE 1,
        path |-> PathCoords(start, node_path, target),
        type |-> "Road (Smart)"]

\* lines 74-99: the route over the road nodes of node_path
SmartRoute(start, node_path, dest_node, target) ==
    LET road_dist_m == PathWeight(node_path)
        hike_m == Haversine(NodeY(dest_node), NodeX(dest_node), target[1], target[2])
        duration == ((3 * road_dist_m + 10 * hike_m) \div 2500) + 2
    IN [origin |-> start.name,
        distance_km |-> RoundKm2(road_dist_m + hike_m),
        duration_min |-> IF duration > 1 THEN duration ELSE 1,
        path |-> PathCoords(start, node_path, target),
        type |-> "Road (Smart)"]

\* the locals of the road branch when it was not entered
NoTrace == [entered |-> FALSE, routing_nodes |-> {}, orig_node |-> 0,
            dest_node |-> 0, node_path |-> <<>>, caught |-> "none"]

\* (a plausible slip: the handler at line 100 left out)
CatchesNothing(exception) == FALSE

\* `except Exception` at line 100
Catches(exception) == TRUE

\* no route: the value of r_route before a call returns and after it raised
NoRoute == [origin |-> "", distance_km |-> 0, duration_min |-> 0,
            path |-> <<>>, type |-> ""]

\* lines 49-74: what the road branch can do on graph G. It snaps the base
\* and the target to nodes of routing_graph and searches a shortest path;
\* each record holds the locals reached and the call that raised, if one did
RoadAttempts(G, start, target, avoid_polygon) ==
    LET routing_nodes == RoutingNodes(G, avoid_polygon)
        origs == NearestNodes(routing_nodes, start.lat, start.lon)
        dests == NearestNodes(routing_nodes, target[1], target[2])
    IN IF origs = {}
       THEN {[entered |-> TRUE, routing_nodes |-> routing_nodes, orig_node |-> 0,
              dest_node |-> 0, node_path |-> <<>>, caught |-> "nearest_nodes"]}
       ELSE UNION {
              IF ShortestPaths(G, routing_nodes, o, d) = {}
              THEN {[entered |-> TRUE, routing_nodes |-> routing_nodes,
                     orig_node |-> o, dest_node |-> d, node_path |-> <<>>,
                     caught |-> "shortest_path"]}
              ELSE {[entered |-> TRUE, routing_nodes |-> routing_nodes,
                     orig_node |-> o, dest_node |-> d, node_path |-> q,
                     caught |-> "none"] : q \in ShortestPaths(G, routing_nodes, o, d)}
              : o \in origs, d \in dests }

\* calculate_route(lat_target, lon_target, asset_id, avoid_polygon), lines
\* 35-103, up to its return
CalculateRouteCall(target, asset_id, avoid_polygon) ==
    /\ r_pc = "idle"
    /\ \E start \in {BASES[ResolveBase(asset_id)]} :
       \E trace \in (IF ~IsAir(asset_id) /\ GraphTruthy(graph)
                     THEN RoadAttempts(graph, start, target, avoid_polygon)
                     ELSE {NoTrace}) :
         /\ r_target' = target
         /\ r_asset_id' = asset_id
         /\ r_avoid_polygon' = avoid_polygon
         /\ r_start' = start
         /\ r_trace' = trace
         /\ IF IsAir(asset_id)
            THEN /\ r_route' = MakeDirectRoute(start, target, SpeedAir, "Air Direct")
                 /\ r_raised' = FALSE
            ELSE IF trace.entered /\ trace.caught = "none"
            THEN /\ r_route' = SmartRoute(start, trace.node_path, trace.dest_node, target)
                 /\ r_raised' = FALSE
            ELSE IF trace.caught # "none" /\ ~Catches(trace.caught)
            THEN /\ r_route' = NoRoute
                 /\ r_raised' = TRUE
            ELSE /\ r_route' = MakeDirectRoute(start, target, SpeedOffroad,
                                               "Direct (Nav Fail)")
                 /\ r_raised' = FALSE
    /\ r_pc' = "returned"
    /\ UNCHANGED <<graph, notRouteVars>>

\* a calculate_route call on a target, an asset id and an avoid polygon of
\* those offered
CalculateRoute ==
    \E target \in RouteTargets, asset_id \in AssetIds,
       avoid_polygon \in AvoidPolygons :
        CalculateRouteCall(target, asset_id, avoid_polygon)

\* the caller has taken the route
CalculateRouteDone ==
    /\ r_pc = "returned"
    /\ r_pc' = "idle"
    /\ r_target' = <<0, 0>>
    /\ r_asset_id' = ""
    /\ r_avoid_polygon' = <<>>
    /\ r_start' = BASES["ENGINE-A"]
    /\ r_trace' = NoTrace
    /\ r_route' = NoRoute
    /\ r_raised' = FALSE
    /\ UNCHANGED <<graph, notRouteVars>>

\* a router as __init__ leaves it, holding one of the graphs offered
RouteInitWith(graphs) ==
    /\ graph \in graphs
    /\ r_pc = "idle"
    /\ r_target = <<0, 0>>
    /\ r_asset_id = ""
    /\ r_avoid_polygon = <<>>
    /\ r_start = BASES["ENGINE-A"]
    /\ r_trace = NoTrace
    /\ r_route = NoRoute
    /\ r_raised = FALSE

RouteNext == CalculateRoute \/ CalculateRouteDone

-----------------------------------------------------------------------------
\* Claims about calculate_route, checked under SpecRoute.

\* Python's text.startswith(prefix)
StartsWith(prefix, text) ==
    /\ Len(Chars(text)) >= Len(Chars(prefix))
    /\ SubSeq(Chars(text), 1, Len(Chars(prefix))) = Chars(prefix)

\* an id of an air unit, as the claims word it
AirId(asset_id) == Contains("TANKER", asset_id) \/ Contains("DRONE", asset_id)

BasePoint(base) == <<base.lat, base.lon>>

\* the nodes that roads of G inside `nodes` lead to from the nodes of S
RECURSIVE ReachableFrom(_, _, _)
ReachableFrom(G, nodes, S) ==
    LET more == S \cup {n \in nodes : \E m \in S : <<m, n>> \in G.edges}
    IN IF more = S THEN S ELSE ReachableFrom(G, nodes, more)

\* the road graph cannot serve the call: it is missing or empty, or snapping
\* raised, or the snapped destination cannot be reached from the snapped
\* origin, or the path search raised
RoadUnusable ==
    \/ ~graph.loaded
    \/ graph.nodes = {}
    \/ r_trace.caught \in {"nearest_nodes", "shortest_path"}
    \/ /\ r_trace.entered
       /\ r_trace.orig_node # 0
       /\ r_trace.dest_node \notin
             ReachableFrom(graph, r_trace.routing_nodes, {r_trace.orig_node})

\* C12 (route fallback): for a ground asset calculate_route does not raise
\* and returns a road route or the fallback; whenever the road graph cannot
\* serve the call the route has type "Direct (Nav Fail)" and the two-point
\* path base -> target.
C12_RouteFallback ==
    (r_pc = "returned" /\ ~AirId(r_asset_id))
        => /\ ~r_raised
           /\ r_route.type \in {"Road (Smart)", "Direct (Nav Fail)"}
           /\ r_route.path # <<>>
           /\ RoadUnusable
                => /\ r_route.type = "Direct (Nav Fail)"
                   /\ r_route.path = <<BasePoint(r_start), r_target>>

\* a ground call on a loaded graph whose snapped nodes no road connects
C12_Witness ==
    /\ r_pc = "returned"
    /\ ~AirId(r_asset_id)
    /\ graph.loaded
    /\ r_trace.caught = "shortest_path"
    /\ r_trace.orig_node # r_trace.dest_node
    /\ r_route.type = "Direct (Nav Fail)"

\* C13 (fire avoidance): on a "Road (Smart)" route for an avoid polygon of
\* at least 4 vertices, no road node of the path lies inside the polygon
\* shrunk by the buffer, and none of the nodes routed on does.
C13_FireAvoidance ==
    (/\ r_pc = "returned"
     /\ r_route.type = "Road (Smart)"
     /\ Len(r_avoid_polygon) >= 4)
        => LET poly == PolygonOf(r_avoid_polygon)
           IN /\ \A i \in 1 .. Len(r_trace.node_path) :
                    ~BufferedContains(poly, NodeY(r_trace.node_path[i]),
                                            NodeX(r_trace.node_path[i]))
              /\ \A n \in r_trace.routing_nodes :
                    ~BufferedContains(poly, NodeY(n), NodeX(n))
              /\ \A i \in 2 .. (Len(r_route.path) - 1) :
                    ~BufferedContains(poly, r_route.path[i][1], r_route.path[i][2])

\* a road route that goes round a polygon holding a node of the graph
C13_Witness ==
    /\ r_pc = "returned"
    /\ r_route.type = "Road (Smart)"
    /\ Len(r_avoid_polygon) >= 4
    /\ UnsafeNodes(graph, r_avoid_polygon) # {}
    /\ Len(r_trace.node_path) = 3
    /\ r_trace.node_path[2] = 4

\* C14 (route endpoints): every route returned, in each of the three modes,
\* starts at the coordinate of the base resolved for the asset and ends at
\* the requested target coordinate.
C14_Endpoints ==
    r_pc = "returned"
        => /\ ~r_raised
           /\ r_route.type \in {"Air Direct", "Road (Smart)", "Direct (Nav Fail)"}
           /\ Len(r_route.path) >= 2
           /\ r_route.path[1] = BasePoint(BASES[ResolveBase(r_asset_id)])
           /\ r_route.path[Len(r_route.path)] = r_target
           /\ r_route.origin = BASES[ResolveBase(r_asset_id)].name

\* a road route whose last road node is not the target
C14_Witness ==
    /\ r_pc = "returned"
    /\ r_route.type = "Road (Smart)"
    /\ Len(r_route.path) = 4
    /\ r_route.path[3] # r_target
    /\ r_route.path[2] # r_route.path[1]

\* minutes is the travel time num / den minutes plus the 2 minutes of overhead,
\* truncated to whole minutes
TruncatedWithOverhead(minutes, num, den) ==
    /\ den * (minutes - 2) <= num
    /\ num < den * (minutes - 1)

\* C29 (route duration): a "Road (Smart)" route takes road_km / 50 * 60 +
\* last_mile_km / 15 * 60 + 2 minutes and its distance is the road distance
\* plus the last mile from the snapped destination node to the exact target;
\* an "Air Direct" route takes dist_km / 250 * 60 + 2 and a "Direct (Nav
\* Fail)" route dist_km / 15 * 60 + 2 minutes; the duration reported is that
\* value truncated to whole minutes and never below 2.
C29_RouteDuration ==
    (r_pc = "returned" /\ ~r_raised) =>
        LET dist_m == Haversine(r_start.lat, r_start.lon, r_target[1], r_target[2])
            road_m == PathWeight(r_trace.node_path)
            last_mile_m == Haversine(NodeY(r_trace.dest_node), NodeX(r_trace.dest_node),
                                     r_target[1], r_target[2])
        IN /\ r_route.duration_min >= 2
           /\ r_route.type = "Road (Smart)" =>
                \* minutes = road_m / 1000 / 50 * 60 + last_mile_m / 1000 / 15 * 60
                /\ TruncatedWithOverhead(r_route.duration_min,
                                         3 * road_m + 10 * last_mile_m, 2500)
                /\ r_route.distance_km = RoundKm2(road_m + last_mile_m)
           /\ r_route.type = "Air Direct" =>
                /\ TruncatedWithOverhead(r_route.duration_min, 3 * dist_m, 50 * 250)
                /\ r_route.distance_km = RoundKm2(dist_m)
           /\ r_route.type = "Direct (Nav Fail)" =>
                /\ TruncatedWithOverhead(r_route.duration_min, 3 * dist_m, 50 * 15)
                /\ r_route.distance_km = RoundKm2(dist_m)

\* a road route along the street 1 - 2 - 3 (2 km) whose target lies a last
\* mile beyond node 3
C29_Witness ==
    /\ r_pc = "returned"
    /\ r_route.type = "Road (Smart)"
    /\ r_trace.node_path = <<1, 2, 3>>
    /\ PathWeight(r_trace.node_path) = 2000
    /\ r_target = <<-60, 180>>
    /\ r_route.duration_min > 2
    /\ r_route.duration_min =
         ((3 * 2000 + 10 * Haversine(0, 60, -60, 180)) \div 2500) + 2

\* C15 (home base), as claimed: an id with prefix TANKER, ENGINE, CREW or
\* DRONE resolves to a base of that type, every other id to ENGINE-A.
C15_BaseByPrefix ==
    r_pc = "returned"
        => /\ StartsWith("TANKER", r_asset_id) => r_start = BASES["TANKER"]
           /\ StartsWith("ENGINE", r_asset_id)
                => r_start \in {BASES["ENGINE-A"], BASES["ENGINE-B"]}
           /\ StartsWith("CREW", r_asset_id) => r_start = BASES["CREW-ZULU"]
           /\ StartsWith("DRONE", r_asset_id) => r_start = BASES["DRONE-X1"]
           /\ (\A prefix \in {"TANKER", "ENGINE", "CREW", "DRONE"} :
                  ~StartsWith(prefix, r_asset_id))
                => r_start = BASES["ENGINE-A"]

\* C16 (air routing): an id containing "TANKER" or "DRONE" gets "Air Direct"
\* with the two-point path base -> target and the road branch is not
\* entered, whatever graph the router holds and whatever polygon is passed;
\* every other id gets a road route or the fallback.
C16_AirRouting ==
    r_pc = "returned"
        => /\ AirId(r_asset_id) <=> r_route.type = "Air Direct"
           /\ AirId(r_asset_id)
                => /\ r_route.path = <<BasePoint(r_start), r_target>>
                   /\ r_trace = NoTrace

\* a drone routed while the router holds the street graph and a polygon
\* around node 2 is passed
C16_Witness ==
    /\ r_pc = "returned"
    /\ r_asset_id = "DRONE-X1"
    /\ Cardinality(graph.nodes) = 5
    /\ Len(r_avoid_polygon) = 4
    /\ r_route.type = "Air Direct"

-----------------------------------------------------------------------------
\* pages/3_Simulation_Lab.py: the session state and the EXECUTE SIMULATION
\* handler.  The handler calls get_pixel_from_gps, run_simulation,
\* analyze_tactics and optimize_response in turn; run_simulation and
\* optimize_response take the steps modelled above.

\* the duration the slider of line 126 passes, in twelfths of an hour, cut
\* to a run of one step
LabDurations == {2}

\* the session's lat_input: the latitude of the raster's top row; the
\* lon_input ranges over GpsLons, in and out of the raster
LabLats == {FileTransform.north}

\* the session's live wind: calm
LabWinds == {<<0, 0>>}

\* Python's truth value of px: None and column 0 are false
Truthy(pixel) == pixel # NoPixel /\ pixel[1] # 0

\* ts = tactics['targets'], in the order analyze_tactics builds the dict
TargetItems(t) ==
    << [t_name |-> "Alpha Head", t_coords |-> t.targets.alpha],
       [t_name |-> "Bravo Flank", t_coords |-> t.targets.bravo],
       [t_name |-> "Charlie Flank", t_coords |-> t.targets.charlie] >>

\* lines 153-156: the priority tag of each allocation
Tagged(allocs) ==
    [i \in 1 .. Len(allocs) |->
        [asset_id |-> allocs[i].asset_id,
         target |-> allocs[i].target,
         coords |-> allocs[i].coords,
         priority |-> IF Contains("Alpha", allocs[i].target) THEN 1
                      ELSE IF Contains("TANKER", allocs[i].asset_id) THEN 0
                      ELSE 2]]

\* line 160: next((i for i, d in enumerate(allocs) if "TANKER" in
\* d['asset_id']), None), the first such index, 0 for None
TankerIdx(allocs) ==
    IF \E i \in 1 .. Len(allocs) : Contains("TANKER", allocs[i].asset_id)
    THEN CHOOSE i \in 1 .. Len(allocs) :
            /\ Contains("TANKER", allocs[i].asset_id)
            /\ \A j \in 1 .. (i - 1) : ~Contains("TANKER", allocs[j].asset_id)
    ELSE 0

\* line 161: the first index whose target contains "Alpha", 0 for None
AlphaIdxAlloc(allocs) ==
    IF \E i \in 1 .. Len(allocs) : Contains("Alpha", allocs[i].target)
    THEN CHOOSE i \in 1 .. Len(allocs) :
            /\ Contains("Alpha", allocs[i].target)
            /\ \A j \in 1 .. (i - 1) : ~Contains("Alpha", allocs[j].target)
    ELSE 0

\* lines 163-168: the targets of the tanker's entry and of the Alpha entry
\* exchanged when they are different entries
Swapped(allocs) ==
    LET tanker_idx == TankerIdx(allocs)
        alpha_idx_alloc == AlphaIdxAlloc(allocs)
    IN IF tanker_idx # 0 /\ alpha_idx_alloc # 0 /\ tanker_idx # alpha_idx_alloc
       THEN [allocs EXCEPT ![tanker_idx].target = allocs[alpha_idx_alloc].target,
                           ![alpha_idx_alloc].target = allocs[tanker_idx].target]
       ELSE allocs

\* lines 153-168
PostProcess(allocs) == Swapped(Tagged(allocs))

\* lines 221-228: the Logistics tab as the script draws it from the session
\* state; line 224 subscripts sim_tactics, which raises TypeError on None
DrawLogistics(active, allocations, found) ==
    IF active /\ allocations # <<>>
    THEN IF found.found THEN "drawn" ELSE "TypeError"
    ELSE "skipped"

\* lines 138-142 and 174: the button is pressed; the pixel is looked up and,
\* when px is true, run_simulation is called; otherwise "Out of bounds." is
\* reported and the script goes on to draw the tabs.  The session ends
\* with its MaxCalls-th optimize_response call.
LabExecute ==
    /\ lab_pc = "idle"
    /\ eng_pc = "built"
    /\ a_calls[1] < MaxCalls
    /\ \E lat \in LabLats, lon \in GpsLons, w \in LabWinds, dur \in LabDurations :
       \E pixel \in {PixelFromGps(transform, lat, lon)} :
         /\ lab_px' = pixel
         /\ IF Truthy(pixel)
            THEN /\ sim_pc = "idle"
                 /\ RunSimulationCall(pixel[1], pixel[2], w, dur)
                 /\ lab_pc' = "simulating"
                 /\ lab_message' = "none"
                 /\ lab_render' = "none"
            ELSE /\ lab_pc' = "idle"
                 /\ lab_message' = "Out of bounds."
                 /\ lab_render' = DrawLogistics(sim_active, sim_allocations, sim_tactics)
                 /\ UNCHANGED <<sim_pc, start_x, start_y, wind_speed, wind_dir,
                                duration_hours, kernel, steps, step_k,
                                current_state, frames, sim_result>>
    /\ UNCHANGED <<risk_grid, sim_active, sim_frames, sim_tactics, sim_allocations,
                   selected_unit_id, engVars, tacVars, allocVars, routeVars, hvVars,
                   fnVars>>

\* lines 143-147 and 172-173: the frames are stored and the last one analysed;
\* without tactics the handler reports "Done." and the script is run again,
\* which draws the tabs
LabAnalyze ==
    /\ lab_pc = "simulating"
    /\ sim_pc = "returned"
    /\ sim_result = "frames"
    /\ sim_frames' = frames
    /\ sim_active' = TRUE
    /\ \E contours \in FindContours(frames[Len(frames)]) :
       \E found \in {AnalyzeResult(contours, wind_dir)} :
         /\ sim_tactics' = found
         /\ IF found.found
            THEN /\ lab_pc' = "allocating"
                 /\ UNCHANGED <<lab_message, lab_render>>
            ELSE /\ lab_pc' = "idle"
                 /\ lab_message' = "Done."
                 /\ lab_render' = DrawLogistics(TRUE, sim_allocations, found)
    /\ sim_pc' = "idle"
    /\ start_x' = 0
    /\ start_y' = 0
    /\ wind_speed' = 0
    /\ wind_dir' = 0
    /\ duration_hours' = 0
    /\ kernel' = generate_wind_kernel(0, 0)
    /\ steps' = 0
    /\ step_k' = 0
    /\ current_state' = ZeroGrid
    /\ frames' = <<>>
    /\ sim_result' = "none"
    /\ UNCHANGED <<risk_grid, lab_px, sim_allocations, selected_unit_id, engVars,
                   tacVars, allocVars, routeVars, hvVars, fnVars>>

\* line 149: optimize_response is called with the targets of the tactics
LabOptimize ==
    /\ lab_pc = "allocating"
    /\ a_pc[1] = "idle"
    /\ a_targets' = [a_targets EXCEPT ![1] = TargetItems(sim_tactics)]
    /\ a_solution' = [a_solution EXCEPT ![1] = <<>>]
    /\ a_k' = [a_k EXCEPT ![1] = 1]
    /\ a_pc' = [a_pc EXCEPT ![1] = "loop"]
    /\ a_calls' = [a_calls EXCEPT ![1] = @ + 1]
    /\ UNCHANGED <<fleet, a_pool, a_best, a_scores, a_tmp, notAllocVars>>

\* lines 153-173: the allocations are post-processed and stored, "Done." is
\* reported and the script is run again, which draws the tabs
LabStore ==
    /\ lab_pc = "allocating"
    /\ a_pc[1] = "returned"
    /\ \E allocs \in {PostProcess(a_solution[1])} :
         /\ sim_allocations' = allocs
         /\ lab_render' = DrawLogistics(sim_active, allocs, sim_tactics)
    /\ selected_unit_id' = "None"
    /\ lab_message' = "Done."
    /\ lab_pc' = "idle"
    /\ a_pc' = [a_pc EXCEPT ![1] = "idle"]
    /\ a_targets' = [a_targets EXCEPT ![1] = <<>>]
    /\ a_k' = [a_k EXCEPT ![1] = 0]
    /\ a_pool' = [a_pool EXCEPT ![1] = <<>>]
    /\ a_best' = [a_best EXCEPT ![1] = <<>>]
    /\ a_tmp' = [a_tmp EXCEPT ![1] = <<>>]
    /\ a_solution' = [a_solution EXCEPT ![1] = <<>>]
    /\ UNCHANGED <<fleet, a_scores, a_calls, lab_px, sim_active, sim_frames, sim_tactics,
                   engVars, simVars, tacVars, routeVars, hvVars, fnVars>>

\* lines 32-40: the session state of a fresh session
LabInit ==
    /\ lab_pc = "idle"
    /\ lab_px = NoPixel
    /\ lab_message = "none"
    /\ lab_render = "none"
    /\ sim_active = FALSE
    /\ sim_frames = <<>>
    /\ sim_tactics = NoTactics
    /\ sim_allocations = <<>>
    /\ selected_unit_id = "None"

LabNext ==
    \/ LabExecute
    \/ RunSimulationStep
    \/ RunSimulationReturn
    \/ LabAnalyze
    \/ LabOptimize
    \/ ScoreTarget(1)
    \/ FilterFleet(1)
    \/ StoreFleet(1)
    \/ ResetAndReturn(1)
    \/ LabStore

\* C18 (no-fire handled by the caller), as claimed: in the session state,
\* whenever sim_active is true and sim_allocations is non-empty, sim_tactics
\* is not None, and drawing the Logistics tab never raises.
C18_TacticsPresent ==
    /\ (lab_pc = "idle" /\ sim_active /\ sim_allocations # <<>>) => sim_tactics.found
    /\ lab_render # "TypeError"

\* targets[label] of a tactics result
TargetCoord(t, label) ==
    CASE label = "Alpha Head" -> t.targets.alpha
      [] label = "Bravo Flank" -> t.targets.bravo
      [] label = "Charlie Flank" -> t.targets.charlie

\* the stored list has, place by place, the asset, target and coordinate of
\* the returned solution, the coordinate is targets[target], and the tanker's
\* entry is the Alpha entry
StoredAsReturned(allocs, solution, t) ==
    /\ Len(allocs) = Len(solution)
    /\ \A i \in 1 .. Len(allocs) :
          /\ allocs[i].asset_id = solution[i].asset_id
          /\ allocs[i].target = solution[i].target
          /\ allocs[i].coords = solution[i].coords
          /\ allocs[i].coords = TargetCoord(t, allocs[i].target)
          /\ Contains("TANKER", allocs[i].asset_id)
                <=> Contains("Alpha", allocs[i].target)

\* C26 (post-processing keeps the pairing), under SpecLab: when the handler
\* stores the allocations, every stored entry has the asset, the target and
\* the coordinate the allocator returned at that place, the tanker's entry
\* is the Alpha entry, and the coordinate is targets[target]; the stored
\* allocations agree with the stored tactics whenever tactics are present.
C26_PairingKept ==
    /\ [](( /\ lab_pc = "idle"
            /\ sim_tactics.found
            /\ sim_allocations # <<>> )
           => \A i \in 1 .. Len(sim_allocations) :
                 /\ sim_allocations[i].coords
                       = TargetCoord(sim_tactics, sim_allocations[i].target)
                 /\ Contains("TANKER", sim_allocations[i].asset_id)
                       <=> Contains("Alpha", sim_allocations[i].target))
    /\ [][ (lab_pc = "allocating" /\ lab_pc' = "idle")
            => StoredAsReturned(sim_allocations', a_solution[1], sim_tactics) ]_vars

\* a finished run whose three allocations are stored, the tanker on Alpha
\* Head with priority 1, the noise having put CREW-ZULU on Bravo Flank
C26_Witness ==
    /\ lab_pc = "idle"
    /\ lab_message = "Done."
    /\ sim_tactics.found
    /\ Len(sim_allocations) = 3
    /\ sim_allocations[1].asset_id = "TANKER-01"
    /\ sim_allocations[1].target = "Alpha Head"
    /\ sim_allocations[1].priority = 1
    /\ sim_allocations[2].asset_id = "CREW-ZULU"
    /\ sim_allocations[2].target = "Bravo Flank"
    /\ sim_allocations[2].priority = 2

\* C27 (in-grid ignition is always simulated), as claimed: the handler
\* reports "Out of bounds." only for a coordinate outside the grid; for
\* every coordinate get_pixel_from_gps maps to a pixel, column 0 included, the
\* simulation is run.
C27_InGridSimulated ==
    /\ lab_message = "Out of bounds." => lab_px = NoPixel
    /\ (lab_pc = "idle" /\ lab_px # NoPixel) => lab_message = "Done."

-----------------------------------------------------------------------------
\* _generate_wind_kernel and the spread vector of analyze_tactics, lines
\* 121-123, applied to one and the same wind.

\* greatest wind speed offered, in knots
MaxSpeed == 12

\* the kernel and the vector are computed for a wind
WindConvention ==
    /\ k_pc = "idle"
    /\ \E speed \in 0 .. MaxSpeed, direction \in Bearings :
         /\ k_speed' = speed
         /\ k_direction' = direction
         /\ k_kernel' = generate_wind_kernel(speed, direction)
         /\ k_vector' = DownwindVector(direction)
    /\ k_pc' = "returned"
    /\ UNCHANGED <<perimVars, notFnVars>>

WindConventionDone ==
    /\ k_pc = "returned"
    /\ k_pc' = "idle"
    /\ k_speed' = 0
    /\ k_direction' = 0
    /\ k_kernel' = generate_wind_kernel(0, 0)
    /\ k_vector' = <<0, 0>>
    /\ UNCHANGED <<perimVars, notFnVars>>

FnInit ==
    /\ k_pc = "idle"
    /\ k_speed = 0
    /\ k_direction = 0
    /\ k_kernel = generate_wind_kernel(0, 0)
    /\ k_vector = <<0, 0>>
    /\ p_pc = "idle"
    /\ p_largest = <<>>
    /\ fire_perimeter_gps = <<>>

FnNext == WindConvention \/ WindConventionDone

Sign(x) == IF x > 0 THEN 1 ELSE IF x < 0 THEN -1 ELSE 0

\* the offsets <<dc, dr>> (columns to the right, rows down) of the eight
\* neighbours of a cell
Offsets == {o \in (-1 .. 1) \X (-1 .. 1) : o # <<0, 0>>}

\* C23 (one bearing convention), under SpecWind: for each of the eight
\* bearings and every positive speed, the spread of a burning cell is biased
\* along the vector analyze_tactics uses: east against west as the sign of
\* vx, south against north as the sign of vy; every neighbour whose weight
\* is raised above the base weight lies on the downwind side, and the
\* neighbours of greatest weight are those of greatest projection on the
\* vector.
C23_OneConvention ==
    (k_pc = "returned" /\ k_speed > 0)
        => /\ Sign(SpreadWeight(k_kernel, 0, 1) - SpreadWeight(k_kernel, 0, -1))
                 = Sign(k_vector[1])
           /\ Sign(SpreadWeight(k_kernel, 1, 0) - SpreadWeight(k_kernel, -1, 0))
                 = Sign(k_vector[2])
           /\ \A o \in Offsets :
                 SpreadWeight(k_kernel, o[2], o[1]) > BaseWeight
                     => o[1] * k_vector[1] + o[2] * k_vector[2] >= 0
           /\ \A o \in Offsets :
                 (\A q \in Offsets : SpreadWeight(k_kernel, q[2], q[1])
                                        <= SpreadWeight(k_kernel, o[2], o[1]))
                 <=> (\A q \in Offsets :
                        q[1] * k_vector[1] + q[2] * k_vector[2]
                            <= o[1] * k_vector[1] + o[2] * k_vector[2])

\* bearing 225 at a positive speed: the vector has vx < 0 and vy > 0 (west
\* and down), and the neighbour one row down and one column to the left has
\* the greatest weight, above the neighbour straight below
C23_Witness ==
    /\ k_pc = "returned"
    /\ k_speed > 0
    /\ k_direction = 225
    /\ k_vector[1] < 0 /\ k_vector[2] > 0
    /\ \A q \in Offsets :
          SpreadWeight(k_kernel, q[2], q[1]) <= SpreadWeight(k_kernel, 1, -1)
    /\ SpreadWeight(k_kernel, 1, -1) > SpreadWeight(k_kernel, 1, 0)

-----------------------------------------------------------------------------
\* The fire perimeter of analyze_tactics, lines 98-101, handed as
\* avoid_polygon to calculate_route by the Logistics tab, lines 228-245.

\* greatest number of vertices of a contour offered
MaxContourLen == 17

\* the transform of a raster whose pixels fall on the router's lattice:
\* pixels of one degree, upper left corner at lat 60, lon -120
PerimeterTransform == [set |-> TRUE, west |-> -120, north |-> 60]

\* the burnt areas offered, as pixel rectangles: one around road node 2, one
\* between the road nodes with none of them inside
BurntRects ==
    { [x0 |-> 60, y0 |-> 0, x1 |-> 180, y1 |-> 120],
      [x0 |-> 180, y0 |-> 0, x1 |-> 240, y1 |-> 60] }

\* vertex k (from 0) of a contour that runs around the rectangle, five
\* vertices to a side, the corners at k = 0, 5, 10 and 15
RectVertex(rect, k) ==
    LET side == IF k >= 15 THEN 3 ELSE k \div 5
        j == k - 5 * side
        dx == (rect.x1 - rect.x0) \div 5
        dy == (rect.y1 - rect.y0) \div 5
    IN CASE side = 0 -> <<rect.x0 + j * dx, rect.y0>>
         [] side = 1 -> <<rect.x1, rect.y0 + j * dy>>
         [] side = 2 -> <<rect.x1 - j * dx, rect.y1>>
         [] side = 3 -> <<rect.x0, rect.y1 - j * dy>>

\* the contours offered as `largest`: the first n vertices of such a run
LargestContours ==
    {[i \in 1 .. n |-> RectVertex(rect, i - 1)] :
        rect \in BurntRects, n \in 1 .. MaxContourLen}

\* (a plausible slip: every 4th vertex taken)
DownSampleBy4(largest) ==
    [i \in 1 .. ((Len(largest) + 3) \div 4) |-> largest[4 * (i - 1) + 1]]

\* largest[::5, 0, :], line 99
DownSample(largest) ==
    [i \in 1 .. ((Len(largest) + 4) \div 5) |-> largest[5 * (i - 1) + 1]]

\* lines 98-101: gps_polygon
GpsPolygon(tr, largest) ==
    LET pts == DownSample(largest)
    IN [i \in 1 .. Len(pts) |-> LatLon(tr, pts[i][1], pts[i][2])]

\* analyze_tactics builds the perimeter of a largest contour
BuildPerimeter ==
    /\ p_pc = "idle"
    /\ eng_pc = "built"
    /\ \E largest \in LargestContours :
         /\ p_largest' = largest
         /\ fire_perimeter_gps' = GpsPolygon(transform, largest)
    /\ p_pc' = "sampled"
    /\ UNCHANGED <<k_pc, k_speed, k_direction, k_kernel, k_vector, notFnVars>>

\* Logistics tab, lines 241-245: a unit of the manifest is routed to its
\* target, a vertex of the contour, around the fire perimeter.  The targets
\* offered are the vertices whose coordinates lie on the router's lattice
ManifestRoute ==
    /\ p_pc = "sampled"
    /\ \E k \in 1 .. Len(p_largest), asset_id \in AssetIds :
       \E target \in {LatLon(transform, p_largest[k][1], p_largest[k][2])} :
         /\ target \in LatLons
         /\ CalculateRouteCall(target, asset_id, fire_perimeter_gps)

\* the session drops the tactics
DropPerimeter ==
    /\ p_pc = "sampled"
    /\ r_pc = "idle"
    /\ p_pc' = "idle"
    /\ p_largest' = <<>>
    /\ fire_perimeter_gps' = <<>>
    /\ UNCHANGED <<k_pc, k_speed, k_direction, k_kernel, k_vector, notFnVars>>

PerimeterNext ==
    BuildPerimeter \/ ManifestRoute \/ CalculateRouteDone \/ DropPerimeter

\* C30 (perimeter down-sampling feeds avoidance), under SpecPerimeter: for
\* a largest contour of n vertices fire_perimeter_gps holds exactly
\* ceil(n / 5) points, the coordinates of the vertices 0, 5, 10, ... in
\* contour order; ground routing around it removes road nodes only when the
\* contour has at least 16 vertices, and routes on the unreduced graph for
\* every smaller contour.
C30_PerimeterFeedsAvoidance ==
    p_pc = "sampled" =>
        LET n == Len(p_largest)
            m == Len(fire_perimeter_gps)
        IN /\ 5 * (m - 1) < n
           /\ n <= 5 * m
           /\ \A i \in 1 .. m :
                 fire_perimeter_gps[i] =
                     LatLon(transform, p_largest[5 * i - 4][1], p_largest[5 * i - 4][2])
           /\ (r_pc = "returned" /\ r_trace.entered) =>
                 /\ r_avoid_polygon = fire_perimeter_gps
                 /\ r_trace.routing_nodes # graph.nodes => n >= 16
                 /\ n < 16 => r_trace.routing_nodes = graph.nodes

\* a contour of 16 vertices around road node 2: the perimeter has 4 points,
\* node 2 is removed and a ground unit is routed over the nodes left
C30_Witness ==
    /\ p_pc = "sampled"
    /\ Len(p_largest) = 16
    /\ Len(fire_perimeter_gps) = 4
    /\ r_pc = "returned"
    /\ r_trace.entered
    /\ 2 \in graph.nodes
    /\ 2 \notin r_trace.routing_nodes
    /\ r_route.type = "Road (Smart)"
    /\ r_trace.node_path = <<1, 4>>

Init ==
    SimInit /\ EngInitBuilt /\ TacInit /\ AllocInit /\ RouteInitWith({NoGraph}) /\ HvInit /\ LabInit /\ FnInit

\* the same, on an engine holding the fallback grid
InitFallback ==
    /\ SimInitWith({ZeroGrid}) /\ EngInitBuilt
    /\ TacInit /\ AllocInit /\ RouteInitWith({NoGraph}) /\ HvInit /\ LabInit /\ FnInit

\* the same, the router holding any of the road graphs
InitRoute ==
    /\ SimInitWith({ZeroGrid}) /\ EngInitBuilt
    /\ TacInit /\ AllocInit /\ RouteInitWith(RoadGraphs) /\ HvInit /\ LabInit /\ FnInit

\* no engine constructed yet, any of the raster files at risk_map_path
InitLoad ==
    /\ SimInitWith({ZeroGrid}) /\ EngInitNew
    /\ TacInit /\ AllocInit /\ RouteInitWith({NoGraph}) /\ HvInit /\ LabInit /\ FnInit

\* run_simulation calls on one engine
Next == SimNext

Spec == Init /\ [][Next]_vars

\* analyze_tactics calls
SpecTactics == InitFallback /\ [][TacNext]_vars

\* optimize_response calls, one after another
SpecAlloc == InitFallback /\ [][AllocNext]_vars

\* optimize_response calls of two sessions on the shared solver
SpecConc == InitFallback /\ [][ConcNext]_vars

\* one Simulation Lab session on an engine holding a raster that burns
InitLab ==
    /\ SimInitWith({[c \in Cells |-> 8]}) /\ EngInitBuilt
    /\ TacInit /\ AllocInit /\ RouteInitWith({NoGraph}) /\ HvInit /\ LabInit /\ FnInit

\* EXECUTE SIMULATION pressed again and again in one session
SpecLab == InitLab /\ [][LabNext]_vars

\* the kernel and the tactics vector computed for one wind
SpecWind == InitFallback /\ [][FnNext]_vars

\* construction of an engine, then get_pixel_from_gps calls on it
SpecLoad == InitLoad /\ [][LoadNext]_vars

\* an engine with or without a transform, the router holding any of the
\* road graphs
InitPerimeter ==
    /\ SimInitWith({ZeroGrid})
    /\ raster = ReadableFile(risk_grid)
    /\ eng_pc = "built"
    /\ transform \in {NoTransform, PerimeterTransform}
    /\ gp_pc = "idle"
    /\ gp_arg = <<0, 0>>
    /\ gp_result = NoPixel
    /\ TacInit /\ AllocInit /\ RouteInitWith(RoadGraphs) /\ HvInit /\ LabInit /\ FnInit

\* perimeters built by analyze_tactics and routed around by the Logistics tab
SpecPerimeter == InitPerimeter /\ [][PerimeterNext]_vars

\* calculate_route calls on one router
SpecRoute == InitRoute /\ [][RouteNext]_vars

\* _haversine calls
SpecHaversine == InitFallback /\ [][HvNext]_vars

====
